---- MODULE Spec2Model ----
(***************************************************************************)
(* Model of the trip-planning core of NationalParkPlanner (src/app.py):    *)
(* the narrative day mapper, the day resolver, the conflict analyzer, the  *)
(* planning board kept in the Streamlit session and the drag-and-drop      *)
(* board rendered in the browser.                                          *)
(*                                                                         *)
(* Text is modelled character by character: a string is a sequence of      *)
(* one-character strings, so that strip, lower, split, substring search,   *)
(* the day-marker regular expression and the HTML text extraction are      *)
(* computed as the code computes them.                                     *)
(***************************************************************************)
EXTENDS Integers, Sequences, FiniteSets, TLC

\* ------------------------------------------------------------------------
\* Bounds of the model
\* ------------------------------------------------------------------------
MaxNights == 1
MaxCards == 3
MaxWire == 1
MaxMoves == 2
MaxLines == 3

\* operations done in the saved-trip editor
MaxEdits == 2

\* browser sessions on the auth screens
MaxSessions == 2

\* ------------------------------------------------------------------------
\* Characters and strings (Python str semantics on the characters used)
\* ------------------------------------------------------------------------
UpperChars == <<"A","B","C","D","E","F","G","H","I","J","K","L","M",
                "N","O","P","Q","R","S","T","U","V","W","X","Y","Z">>
LowerChars == <<"a","b","c","d","e","f","g","h","i","j","k","l","m",
                "n","o","p","q","r","s","t","u","v","w","x","y","z">>
DigitChars == <<"0","1","2","3","4","5","6","7","8","9">>

Range(s) == {s[i] : i \in DOMAIN s}

IndexOf(s, c) == CHOOSE i \in DOMAIN s : s[i] = c

IsUpper(c) == c \in Range(UpperChars)
IsLower(c) == c \in Range(LowerChars)
IsDigit(c) == c \in Range(DigitChars)
IsSpace(c) == c \in {" ", "\t"}
IsWord(c) == IsUpper(c) \/ IsLower(c) \/ IsDigit(c) \/ c = "_"

DigitVal(c) == IndexOf(DigitChars, c) - 1

LowerChar(c) == IF IsUpper(c) THEN LowerChars[IndexOf(UpperChars, c)] ELSE c

\* str.lower()
Lower(s) == [i \in DOMAIN s |-> LowerChar(s[i])]

\* s[a..b] (1-based, inclusive), the empty string when a > b
Slice(s, a, b) == IF a > b THEN <<>> ELSE SubSeq(s, a, b)

\* str.strip(): drop leading and trailing whitespace
Strip(s) ==
    IF \A i \in DOMAIN s : IsSpace(s[i]) THEN <<>>
    ELSE LET first == CHOOSE i \in DOMAIN s :
                          ~IsSpace(s[i]) /\ \A j \in 1..(i-1) : IsSpace(s[j])
             last == CHOOSE i \in DOMAIN s :
                          ~IsSpace(s[i]) /\ \A j \in (i+1)..Len(s) : IsSpace(s[j])
         IN Slice(s, first, last)

\* Python "needle in hay": the empty needle is in every string
Contains(hay, needle) ==
    \E p \in 1..(Len(hay) - Len(needle) + 1) :
        Slice(hay, p, p + Len(needle) - 1) = needle

\* str.split(sep) for a one-character separator: the fields, empty ones kept
RECURSIVE SplitOn(_, _)
SplitOn(s, sep) ==
    IF \A i \in DOMAIN s : s[i] # sep THEN <<s>>
    ELSE LET p == CHOOSE i \in DOMAIN s :
                      s[i] = sep /\ \A j \in 1..(i-1) : s[j] # sep
         IN <<Slice(s, 1, p - 1)>> \o SplitOn(Slice(s, p + 1, Len(s)), sep)

\* str.split(): the whitespace-separated words, no empty ones
RECURSIVE Words(_)
Words(s) ==
    LET t == Strip(s)
    IN IF t = <<>> THEN <<>>
       ELSE IF \A i \in DOMAIN t : ~IsSpace(t[i]) THEN <<t>>
       ELSE LET p == CHOOSE i \in DOMAIN t :
                         IsSpace(t[i]) /\ \A j \in 1..(i-1) : ~IsSpace(t[j])
            IN <<Slice(t, 1, p - 1)>> \o Words(Slice(t, p + 1, Len(t)))

\* int(digits)
RECURSIVE ToInt(_)
ToInt(ds) ==
    IF ds = <<>> THEN 0
    ELSE 10 * ToInt(Slice(ds, 1, Len(ds) - 1)) + DigitVal(ds[Len(ds)])

\* str(n) for n >= 0
RECURSIVE ToStr(_)
ToStr(n) ==
    IF n < 10 THEN <<DigitChars[n + 1]>>
    ELSE ToStr(n \div 10) \o <<DigitChars[(n % 10) + 1]>>

\* ------------------------------------------------------------------------
\* NarrativeDayMapper: parse_activity_day_defaults
\* ------------------------------------------------------------------------

\* first index >= p whose character is not whitespace (Len(s)+1 if none)
RECURSIVE SkipSpace(_, _)
SkipSpace(s, p) ==
    IF p <= Len(s) /\ IsSpace(s[p]) THEN SkipSpace(s, p + 1) ELSE p

\* first index >= p whose character is not a digit (Len(s)+1 if none)
RECURSIVE SkipDigits(_, _)
SkipDigits(s, p) ==
    IF p <= Len(s) /\ IsDigit(s[p]) THEN SkipDigits(s, p + 1) ELSE p

\* r'\bday\s*(\d+)\b' with re.IGNORECASE matches at position p of s
DayMatchAt(s, p) ==
    /\ p + 2 <= Len(s)
    /\ Lower(Slice(s, p, p + 2)) = <<"d","a","y">>
    /\ (p = 1 \/ ~IsWord(s[p - 1]))
    /\ LET q == SkipSpace(s, p + 3)
           e == SkipDigits(s, q)
       IN e > q /\ (e > Len(s) \/ ~IsWord(s[e]))

\* re.search: <<>> when there is no match, else <<group(1) as int>> of the
\* leftmost match
DaySearch(s) ==
    IF \A p \in DOMAIN s : ~DayMatchAt(s, p) THEN <<>>
    ELSE LET p == CHOOSE i \in DOMAIN s :
                      DayMatchAt(s, i) /\ \A j \in 1..(i-1) : ~DayMatchAt(s, j)
             q == SkipSpace(s, p + 3)
             e == SkipDigits(s, q)
         IN <<ToInt(Slice(s, q, e - 1))>>

\* a Python dict with string keys, kept as the sequence of its items in
\* insertion order; assigning an existing key keeps the key's position
DictKeys(d) == {d[i].text : i \in DOMAIN d}

\* DictSet that leaves an existing key as it is
DictSet_keepFirst(d, k, v) ==
    IF k \in DictKeys(d) THEN d ELSE Append(d, [text |-> k, day |-> v])

DictSet(d, k, v) ==
    IF k \in DictKeys(d)
    THEN [i \in DOMAIN d |-> IF d[i].text = k THEN [text |-> k, day |-> v] ELSE d[i]]
    ELSE Append(d, [text |-> k, day |-> v])

\* ParseLine without the range test on the detected day
ParseLine_anyDay(st, line, num_days) ==
    LET line_stripped == Strip(line)
        day_match == DaySearch(line_stripped)
        cur == IF day_match # <<>> THEN day_match[1] ELSE st.cur
    IN [map |-> IF line_stripped # <<>> /\ day_match = <<>>
                THEN DictSet(st.map, Lower(line_stripped), cur)
                ELSE st.map,
        cur |-> cur]

\* ParseLine with an out-of-range day marker setting the day back to 1
ParseLine_resetDay(st, line, num_days) ==
    LET line_stripped == Strip(line)
        day_match == DaySearch(line_stripped)
        cur == IF day_match = <<>> THEN st.cur
               ELSE IF 1 <= day_match[1] /\ day_match[1] <= num_days
               THEN day_match[1] ELSE 1
    IN [map |-> IF line_stripped # <<>> /\ day_match = <<>>
                THEN DictSet(st.map, Lower(line_stripped), cur)
                ELSE st.map,
        cur |-> cur]

\* ParseLine storing a line whose day marker is out of range
ParseLine_storeOutOfRange(st, line, num_days) ==
    LET line_stripped == Strip(line)
        day_match == DaySearch(line_stripped)
        in_range == day_match # <<>> /\ 1 <= day_match[1] /\ day_match[1] <= num_days
        cur == IF in_range THEN day_match[1] ELSE st.cur
    IN [map |-> IF line_stripped # <<>> /\ ~in_range
                THEN DictSet(st.map, Lower(line_stripped), cur)
                ELSE st.map,
        cur |-> cur]

\* one iteration of the loop over the lines; st = [map, cur]
ParseLine(st, line, num_days) ==
    LET line_stripped == Strip(line)
        day_match == DaySearch(line_stripped)
        cur == IF day_match # <<>> /\ 1 <= day_match[1] /\ day_match[1] <= num_days
               THEN day_match[1] ELSE st.cur
    IN [map |-> IF line_stripped # <<>> /\ day_match = <<>>
                THEN DictSet(st.map, Lower(line_stripped), cur)
                ELSE st.map,
        cur |-> cur]

RECURSIVE ParseLines(_, _, _)
ParseLines(st, lines, num_days) ==
    IF lines = <<>> THEN st
    ELSE ParseLines(ParseLine(st, Head(lines), num_days), Tail(lines), num_days)

\* the narrative is the sequence of its lines (text.split('\n')); the empty
\* text is the single empty line
parse_activity_day_defaults(master_itinerary, num_days) ==
    IF master_itinerary = << <<>> >> THEN <<>>
    ELSE ParseLines([map |-> <<>>, cur |-> 1], master_itinerary, num_days).map

\* ------------------------------------------------------------------------
\* DayAssignmentResolver: guess_day_for_activity
\* ------------------------------------------------------------------------

\* SubstringHit returning the last entry in substring relation
SubstringHit_last(name_lower, day_map) ==
    LET hits == {i \in DOMAIN day_map :
                    \/ Contains(day_map[i].text, name_lower)
                    \/ Contains(name_lower, day_map[i].text)}
    IN IF hits = {} THEN 0
       ELSE CHOOSE i \in hits : \A j \in hits : i >= j

\* first pass: index of the first entry in substring relation, 0 if none
SubstringHit(name_lower, day_map) ==
    LET hits == {i \in DOMAIN day_map :
                    \/ Contains(day_map[i].text, name_lower)
                    \/ Contains(name_lower, day_map[i].text)}
    IN IF hits = {} THEN 0
       ELSE CHOOSE i \in hits : \A j \in hits : i <= j

Overlap(name_lower, line_text) ==
    Cardinality(Range(Words(name_lower)) \cap Range(Words(line_text)))

\* OverlapScan taking a later entry on an equal overlap
RECURSIVE OverlapScan_lastBest(_, _, _, _, _)
OverlapScan_lastBest(name_lower, day_map, i, best_overlap, best_day) ==
    IF i > Len(day_map) THEN best_day
    ELSE LET overlap == Overlap(name_lower, day_map[i].text)
         IN IF overlap >= best_overlap /\ overlap >= 2
            THEN OverlapScan_lastBest(name_lower, day_map, i + 1, overlap, day_map[i].day)
            ELSE OverlapScan_lastBest(name_lower, day_map, i + 1, best_overlap, best_day)

\* second pass: the loop that tracks best_overlap / best_day
RECURSIVE OverlapScan(_, _, _, _, _)
OverlapScan(name_lower, day_map, i, best_overlap, best_day) ==
    IF i > Len(day_map) THEN best_day
    ELSE LET overlap == Overlap(name_lower, day_map[i].text)
         IN IF overlap > best_overlap /\ overlap >= 2
            THEN OverlapScan(name_lower, day_map, i + 1, overlap, day_map[i].day)
            ELSE OverlapScan(name_lower, day_map, i + 1, best_overlap, best_day)

guess_day_for_activity(activity_name, day_map, default_day) ==
    LET name_lower == Lower(activity_name)
        hit == SubstringHit(name_lower, day_map)
    IN IF hit # 0 THEN day_map[hit].day
       ELSE OverlapScan(name_lower, day_map, 1, 0, default_day)

\* ------------------------------------------------------------------------
\* The AI collaborator's responses and the narratives used as inputs
\* ------------------------------------------------------------------------
sHike == <<"H","i","k","e","|","T","r","a","i","l">>
sTrek == <<"T","r","e","k","|","W","a","l","k">>
sClimb == <<"C","l","i","m","b","|","T","o","u","r">>
sDawn == <<"D","a","w","n","|","W","a","l","k">>
sDusk == <<"D","u","s","k","|","W","a","l","k">>
sBold == <<"<","b",">","T","r","e","k","<","/","b",">","|","T","r","a","i","l">>
sHikeTour == <<"H","i","k","e","|","T","o","u","r">>
sNoName == <<" ","|","T","r","a","i","l">>
sIntro == <<"I","d","e","a","s">>
sNight == <<"N","i","g","h","t","|","D","a","w","n">>

nDay1 == <<"D","a","y"," ","1">>
nDay2 == <<"*","*","d","a","y","2","*","*">>
nDay3Climb == <<"D","a","y"," ","3",":"," ","c","l","i","m","b">>
nDay9 == <<"D","a","y"," ","9">>
nHike == <<"H","i","k","e">>
nTrek == <<"a"," ","t","r","e","k">>
nClimbRock == <<"c","l","i","m","b"," ","r","o","c","k">>
nRockClimbTrek == <<"R","o","c","k"," ","c","l","i","m","b"," ","t","r","e","k">>
nRockXClimb == <<"r","o","c","k"," ","x"," ","c","l","i","m","b">>
qRockClimb == <<"R","o","c","k"," ","C","l","i","m","b">>
qTrek == <<"T","R","E","K">>
qSwim == <<"S","w","i","m">>
qXRockClimb == <<"X"," ","R","o","c","k"," ","C","l","i","m","b">>
nBlank == <<" "," ">>

EmptyText == << <<>> >>

\* resp.split('---MASTER_ITINERARY---'): section one as its lines, whether
\* the separator is present, and section two as its lines
Responses ==
    { [section1 |-> <<sHike, sTrek, sClimb>>, marker |-> TRUE,
       narrative |-> <<nDay1, nHike, nDay2, nTrek>>],
      [section1 |-> <<sIntro, sDawn, sDusk>>, marker |-> FALSE,
       narrative |-> EmptyText],
      [section1 |-> <<sBold, sNoName>>, marker |-> TRUE,
       narrative |-> <<nDay3Climb, nClimbRock, nDay2, nTrek>>],
      [section1 |-> <<sHike, sHikeTour>>, marker |-> TRUE,
       narrative |-> <<nDay9, nHike>>],
      [section1 |-> <<sIntro>>, marker |-> TRUE,
       narrative |-> <<nDay1, nHike>>] }

\* the narrative lines and activity names a resolver call is tried on
NarrativeLines ==
    {nDay1, nDay2, nDay3Climb, nDay9, nHike, nTrek, nClimbRock, nRockClimbTrek,
     nRockXClimb, nBlank}

ActivityNames == {<<>>, nHike, qRockClimb, qTrek, qSwim, qXRockClimb}

\* ------------------------------------------------------------------------
\* Suggestion lines
\* ------------------------------------------------------------------------
\* name, a_type of one suggestion line (lines 1247-1249)
SuggestionName(act) == Strip(SplitOn(act, "|")[1])

SuggestionType(act) ==
    LET parts == SplitOn(act, "|")
    IN IF Len(parts) > 1 THEN Strip(parts[2])
       ELSE <<"A","c","t","i","v","i","t","y">>

\* the suggestion lines of the responses above, with their fields worked out
\* once
KnownLines == UNION {Range(r.section1) : r \in Responses}

KnownFields ==
    [l \in KnownLines |-> [name |-> SuggestionName(l), type |-> SuggestionType(l)]]

NameOf(act) == IF act \in KnownLines THEN KnownFields[act].name ELSE SuggestionName(act)

TypeOf(act) == IF act \in KnownLines THEN KnownFields[act].type ELSE SuggestionType(act)

\* ------------------------------------------------------------------------
\* ConflictAnalyzer: classify_activity, compute_conflict_warnings
\* ------------------------------------------------------------------------
STRENUOUS_KEYWORDS ==
    { <<"h","i","k","e">>,
      <<"h","i","k","i","n","g">>,
      <<"c","l","i","m","b">>,
      <<"c","l","i","m","b","i","n","g">>,
      <<"b","a","c","k","p","a","c","k">>,
      <<"b","a","c","k","p","a","c","k","i","n","g">>,
      <<"t","r","a","i","l">>,
      <<"s","u","m","m","i","t">>,
      <<"s","c","r","a","m","b","l","e">>,
      <<"t","r","e","k">>,
      <<"t","r","e","k","k","i","n","g">>,
      <<"r","a","f","t","i","n","g">>,
      <<"k","a","y","a","k">> }

NIGHT_KEYWORDS ==
    { <<"s","t","a","r","g","a","z","i","n","g">>,
      <<"n","i","g","h","t">>,
      <<"s","u","n","s","e","t">>,
      <<"c","a","m","p","f","i","r","e">>,
      <<"e","v","e","n","i","n","g">>,
      <<"d","u","s","k">>,
      <<"b","o","n","f","i","r","e">> }

EARLY_KEYWORDS ==
    { <<"s","u","n","r","i","s","e">>,
      <<"d","a","w","n">>,
      <<"m","o","r","n","i","n","g">>,
      <<"e","a","r","l","y">>,
      <<"r","a","n","g","e","r"," ","w","a","l","k">> }

WATER_KEYWORDS ==
    { <<"s","w","i","m">>,
      <<"s","w","i","m","m","i","n","g">>,
      <<"s","n","o","r","k","e","l">>,
      <<"d","i","v","i","n","g">>,
      <<"k","a","y","a","k">>,
      <<"r","a","f","t","i","n","g">>,
      <<"c","a","n","o","e">> }

\* a classifier that looks at the name only
classify_activity_nameOnly(name, atype) ==
    LET text_lower == Lower(name)
    IN (IF \E k \in STRENUOUS_KEYWORDS : Contains(text_lower, k) THEN {"strenuous"} ELSE {})
       \cup (IF \E k \in NIGHT_KEYWORDS : Contains(text_lower, k) THEN {"night"} ELSE {})
       \cup (IF \E k \in EARLY_KEYWORDS : Contains(text_lower, k) THEN {"early"} ELSE {})
       \cup (IF \E k \in WATER_KEYWORDS : Contains(text_lower, k) THEN {"water"} ELSE {})

classify_activity(name, atype) ==
    LET text_lower == Lower(name \o <<" ">> \o atype)
    IN (IF \E k \in STRENUOUS_KEYWORDS : Contains(text_lower, k) THEN {"strenuous"} ELSE {})
       \cup (IF \E k \in NIGHT_KEYWORDS : Contains(text_lower, k) THEN {"night"} ELSE {})
       \cup (IF \E k \in EARLY_KEYWORDS : Contains(text_lower, k) THEN {"early"} ELSE {})
       \cup (IF \E k \in WATER_KEYWORDS : Contains(text_lower, k) THEN {"water"} ELSE {})

\* the tags of the suggestions above, worked out once
KnownTags ==
    [p \in {<<KnownFields[l].name, KnownFields[l].type>> : l \in KnownLines} |->
        classify_activity(p[1], p[2])]

Classified(name, atype) ==
    IF <<name, atype>> \in DOMAIN KnownTags THEN KnownTags[<<name, atype>>]
    ELSE classify_activity(name, atype)

\* [a for a in acts if tag in classify_activity(a["name"], a.get("type", ""))]
Tagged(acts, tag) ==
    SelectSeq(acts, LAMBDA a : tag \in Classified(a.name, a.type))

Names(acts) == [i \in DOMAIN acts |-> acts[i].name]

\* LoadWarning with the heavy-day threshold one too low
LoadWarning_fromTwo(strenuous) ==
    IF Len(strenuous) >= 2
    THEN <<[kind |-> "heavy_day", names |-> Names(strenuous)]>>
    ELSE <<>>

\* the warning about the strenuous activities of a day, if any; a warning is
\* the kind of its message together with the names the message quotes
LoadWarning(strenuous) ==
    IF Len(strenuous) >= 3
    THEN <<[kind |-> "heavy_day", names |-> Names(strenuous)]>>
    ELSE IF Len(strenuous) = 2
    THEN <<[kind |-> "back_to_back", names |-> Names(strenuous)]>>
    ELSE <<>>

\* a sleep warning only for two different activities
SleepWarning_distinct(night_acts, early_acts) ==
    IF night_acts # <<>> /\ early_acts # <<>> /\ night_acts[1] # early_acts[1]
    THEN <<[kind |-> "sleep_conflict",
            names |-> <<early_acts[1].name, night_acts[1].name>>]>>
    ELSE <<>>

\* SleepWarning quoting the last night and the last early activity
SleepWarning_last(night_acts, early_acts) ==
    IF night_acts # <<>> /\ early_acts # <<>>
    THEN <<[kind |-> "sleep_conflict",
            names |-> <<early_acts[Len(early_acts)].name,
                        night_acts[Len(night_acts)].name>>]>>
    ELSE <<>>

\* the warning about a late night and an early start on one day, if any
SleepWarning(night_acts, early_acts) ==
    IF night_acts # <<>> /\ early_acts # <<>>
    THEN <<[kind |-> "sleep_conflict",
            names |-> <<early_acts[1].name, night_acts[1].name>>]>>
    ELSE <<>>

\* the warnings of one day, in the order the code appends them
DayWarnings(acts) ==
    LoadWarning(Tagged(acts, "strenuous"))
        \o SleepWarning(Tagged(acts, "night"), Tagged(acts, "early"))

\* WarnedDays without the test on day_warnings
WarnedDays_all(w) == w

\* if day_warnings: warnings[day_num] = day_warnings
WarnedDays(w) == [d \in {x \in DOMAIN w : w[x] # <<>>} |-> w[d]]

\* a dict keyed by day number is a function on the set of its keys
compute_conflict_warnings(day_activities) ==
    WarnedDays([d \in DOMAIN day_activities |-> DayWarnings(day_activities[d])])

\* ------------------------------------------------------------------------
\* Drag-and-drop board: render_dnd_itinerary and its script
\* ------------------------------------------------------------------------
None == 0

date_range_days(start, end) ==
    IF start = None \/ end = None THEN <<>>
    ELSE [i \in 1..(end - start + 1) |-> <<i, start + i - 1>>]

\* dict.get(key, default) on a dict kept as a function
Get(dict, key, default) == IF key \in DOMAIN dict THEN dict[key] ELSE default

IsLetter(c) == IsUpper(c) \/ IsLower(c)

StartsWith(s, prefix) == Len(s) >= Len(prefix) /\ Slice(s, 1, Len(prefix)) = prefix

\* what the browser's HTML parser leaves as text of markup written into an
\* element unescaped: tags are not text, character references are decoded
RECURSIVE HtmlText(_)
HtmlText(s) ==
    IF s = <<>> THEN <<>>
    ELSE IF s[1] = "<" /\ Len(s) >= 2 /\ (IsLetter(s[2]) \/ s[2] = "/")
    THEN IF \A i \in DOMAIN s : s[i] # ">" THEN <<>>
         ELSE LET e == CHOOSE i \in DOMAIN s :
                           s[i] = ">" /\ \A j \in 1..(i-1) : s[j] # ">"
              IN HtmlText(Slice(s, e + 1, Len(s)))
    ELSE IF StartsWith(s, <<"&","a","m","p",";">>)
    THEN <<"&">> \o HtmlText(Slice(s, 6, Len(s)))
    ELSE IF StartsWith(s, <<"&","l","t",";">>)
    THEN <<"<">> \o HtmlText(Slice(s, 5, Len(s)))
    ELSE IF StartsWith(s, <<"&","g","t",";">>)
    THEN <<">">> \o HtmlText(Slice(s, 5, Len(s)))
    ELSE <<s[1]>> \o HtmlText(Tail(s))

\* the text of the names and types of the suggestions above, worked out once
KnownText ==
    [t \in {KnownFields[l].name : l \in KnownLines}
           \cup {KnownFields[l].type : l \in KnownLines} |-> HtmlText(t)]

TextOf(t) == IF t \in DOMAIN KnownText THEN KnownText[t] ELSE HtmlText(t)

\* days_data: one entry per rendered day, in the order of days
DaysData(day_activities, days, conflict_warnings) ==
    [k \in DOMAIN days |->
        LET day_num == days[k][1]
            acts == Get(day_activities, day_num, <<>>)
        IN [day |-> day_num,
            activities |-> [j \in DOMAIN acts |->
                               [id |-> acts[j].id, name |-> acts[j].name,
                                type |-> acts[j].type]],
            warnings |-> Get(conflict_warnings, day_num, <<>>)]]

\* the document the browser builds from the generated HTML: one column per
\* entry of days_data, one card per activity with data-id, data-day and the
\* text of its act-name and act-type elements
BuildDom(day_activities, days, conflict_warnings) ==
    LET days_data == DaysData(day_activities, days, conflict_warnings)
    IN [k \in DOMAIN days_data |->
           [day |-> days_data[k].day,
            warnings |-> days_data[k].warnings,
            cards |-> [j \in DOMAIN days_data[k].activities |->
                          [id |-> days_data[k].activities[j].id,
                           day |-> days_data[k].day,
                           name |-> TextOf(days_data[k].activities[j].name),
                           type |-> TextOf(days_data[k].activities[j].type)]]]]

\* the cards of a document, as (column index, card index) positions
CardPositions(doc) ==
    UNION {{<<k, j>> : j \in DOMAIN doc[k].cards} : k \in DOMAIN doc}

RemoveAt(s, j) == Slice(s, 1, j - 1) \o Slice(s, j + 1, Len(s))

ColumnOfDay(doc, day) == CHOOSE k \in DOMAIN doc : doc[k].day = day

\* handleDrop inserting the card before the first card of the column
DropInto_first(doc, pos, newDay) ==
    LET card == [doc[pos[1]].cards[pos[2]] EXCEPT !.day = newDay]
        without == [doc EXCEPT ![pos[1]].cards = RemoveAt(@, pos[2])]
        k == CHOOSE c \in DOMAIN doc : doc[c].day = newDay
    IN [without EXCEPT ![k].cards = <<card>> \o @]

\* handleDrop with dragSrc the card at pos: the card gets data-day = newDay
\* and is inserted before the drop zone of column newDay, that is after the
\* last card of that column (it leaves the column it was in)
DropInto(doc, pos, newDay) ==
    LET card == [doc[pos[1]].cards[pos[2]] EXCEPT !.day = newDay]
        without == [doc EXCEPT ![pos[1]].cards = RemoveAt(@, pos[2])]
        k == ColumnOfDay(doc, newDay)
    IN [without EXCEPT ![k].cards = Append(@, card)]

\* deleteActivity: btn.closest('.activity-card').remove()
RemoveCard(doc, pos) == [doc EXCEPT ![pos[1]].cards = RemoveAt(@, pos[2])]

\* saveState leaving out the columns that hold no card
SaveStatePayload_skipEmpty(doc) ==
    [key \in {ToStr(doc[k].day) : k \in {c \in DOMAIN doc : doc[c].cards # <<>>}} |->
        LET k == CHOOSE c \in DOMAIN doc : ToStr(doc[c].day) = key
        IN [j \in DOMAIN doc[k].cards |->
               [id |-> doc[k].cards[j].id,
                name |-> doc[k].cards[j].name,
                type |-> doc[k].cards[j].type]]]

\* saveState: the object that is stringified, keyed by the column's day as
\* a string
SaveStatePayload(doc) ==
    [key \in {ToStr(doc[k].day) : k \in DOMAIN doc} |->
        LET k == CHOOSE c \in DOMAIN doc : ToStr(doc[c].day) = key
        IN [j \in DOMAIN doc[k].cards |->
               [id |-> doc[k].cards[j].id,
                name |-> doc[k].cards[j].name,
                type |-> doc[k].cards[j].type]]]

\* ------------------------------------------------------------------------
\* ItineraryBoard: the board of the Streamlit session and its handlers
\* ------------------------------------------------------------------------
EmptyDict == <<>>

StartDate == 1

\* an id made of the suggestion index alone
ActId_noDay(i, target) == <<"a","c","t","_">> \o ToStr(i)

\* f"act_{i}_{target}"
ActId(i, target) == <<"a","c","t","_">> \o ToStr(i) \o <<"_">> \o ToStr(target)

CardCount(board) ==
    LET RECURSIVE Sum(_)
        Sum(ds) == IF ds = {} THEN 0
                   ELSE LET d == CHOOSE x \in ds : TRUE
                        IN Len(board[d]) + Sum(ds \ {d})
    IN Sum(DOMAIN board)

\* if target not in day_activities: day_activities[target] = []
BoardWith(board, target) ==
    IF target \in DOMAIN board THEN board
    ELSE [d \in DOMAIN board \cup {target} |->
             IF d \in DOMAIN board THEN board[d] ELSE <<>>]

NameInDay(board, target, name) ==
    target \in DOMAIN board /\ \E j \in DOMAIN board[target] : board[target][j].name = name

\* AddActivity without the test on the names of the day
AddActivity_noDedup(board, i, name, a_type, target) ==
    LET b == BoardWith(board, target)
    IN [b EXCEPT ![target] =
           Append(@, [id |-> ActId(i, target), name |-> name, type |-> a_type])]

\* the four lines shared by Apply All (1261-1264) and the add button
\* (1290-1293)
AddActivity(board, i, name, a_type, target) ==
    LET b == BoardWith(board, target)
    IN IF NameInDay(b, target, name) THEN b
       ELSE [b EXCEPT ![target] =
                Append(@, [id |-> ActId(i, target), name |-> name, type |-> a_type])]

\* raw / suggested_day of suggestion i (lines 1252-1253); the str(i) key of
\* the defaults holds the same value as the int key
SuggestedDay(i, defaults, day_options) ==
    LET raw == Get(defaults, i, 1)
    IN IF \E k \in DOMAIN day_options : day_options[k] = raw THEN raw
       ELSE IF day_options # <<>> THEN day_options[1] ELSE 1

DayOptions(days) == [k \in DOMAIN days |-> days[k][1]]

\* sorted_activities: the entries in the order of a stable sort on
\* suggested_day
SortedActivities(temp, defaults, day_options) ==
    LET entry(i) == [i |-> i,
                     name |-> NameOf(temp[i + 1]),
                     a_type |-> TypeOf(temp[i + 1]),
                     suggested_day |-> SuggestedDay(i, defaults, day_options)]
        entries == [k \in DOMAIN temp |-> entry(k - 1)]
        RECURSIVE ByDay(_)
        ByDay(d) == IF d > Len(day_options) + 1 THEN <<>>
                    ELSE SelectSeq(entries, LAMBDA e : e.suggested_day = d) \o ByDay(d + 1)
    IN ByDay(1)

\* the loop of the Apply All handler
RECURSIVE ApplyAllLoop(_, _, _)
ApplyAllLoop(board, sorted, widget_state) ==
    IF sorted = <<>> THEN board
    ELSE LET e == Head(sorted)
             target == IF e.i \in DOMAIN widget_state
                       THEN widget_state[e.i].value ELSE e.suggested_day
         IN ApplyAllLoop(AddActivity(board, e.i, e.name, e.a_type, target),
                         Tail(sorted), widget_state)

\* the add button without its st.rerun()
AddReruns_never(added) == FALSE

\* st.rerun() runs only inside the "name not in" branch of the add button
AddReruns(added) == added

\* the guard of the board block (line 1228)
BoardGuard(temp, start, end) == temp # <<>> /\ start # None /\ end # None

\* ------------------------------------------------------------------------
\* State
\* ------------------------------------------------------------------------
VARIABLES
    temp_activities,        \* st.session_state.temp_activities
    master_itinerary,       \* st.session_state.master_itinerary (its lines)
    day_activities,         \* st.session_state.day_activities
    nights,                 \* st.session_state.nights
    trip_start,             \* st.session_state.trip_start (None or a date)
    trip_end,               \* st.session_state.trip_end
    activity_day_defaults,  \* st.session_state.activity_day_defaults
    conflict_warnings,      \* st.session_state.conflict_warnings
    widgets,                \* state of the selectboxes keyed target_day_<i>
    rendered,               \* arguments of the last render_dnd_itinerary call
    dom,                    \* the board document in the browser
    wire,                   \* payloads posted to the parent window
    moves,                  \* drops and deletes on the document since it was loaded
    lastOp,                 \* the last operation, where a claim is about it
    r_pc, r_text, r_numDays, r_name, r_map, r_day,  \* a resolver call
    inserted,               \* trip_activities rows the last operation inserted
    c_pc, c_name, c_type, c_tags,  \* a classify_activity call
    trip_activities,        \* rows of the trip open in the saved-trip editor
    edit_days,              \* number of days of that trip
    next_id,                \* next value of the trip_activities id sequence
    edits,                  \* operations done in the editor
    users,                  \* the users table: password_hash, date_of_birth
    sessions,               \* per browser session: logged_in, auth_screen, pending_uid
    g_resp                  \* the AI response of a Generate Plan run taken on its own

session == <<temp_activities, master_itinerary, day_activities, nights,
             trip_start, trip_end, activity_day_defaults, conflict_warnings>>
client == <<dom, wire, moves>>
resolver == <<r_pc, r_text, r_numDays, r_name, r_map, r_day>>
\* the state outside the plan tab
others == <<c_pc, c_name, c_type, c_tags, trip_activities, edit_days, next_id, edits,
            users, sessions, g_resp>>
vars == <<session, widgets, rendered, client, lastOp, resolver, inserted, others>>

\* session defaults (lines 27-45), nothing rendered, no resolver call
InitSession ==
    /\ temp_activities = <<>>
    /\ master_itinerary = EmptyText
    /\ day_activities = EmptyDict
    /\ nights = 0
    /\ trip_start = None
    /\ trip_end = None
    /\ activity_day_defaults = EmptyDict
    /\ conflict_warnings = EmptyDict
    /\ widgets = EmptyDict
    /\ rendered = <<>>
    /\ dom = <<>>
    /\ wire = <<>>
    /\ moves = 0
    /\ lastOp = "init"
    /\ inserted = <<>>

\* no classifier call
IdleClassifier ==
    /\ c_pc = "idle"
    /\ c_name = <<>>
    /\ c_type = <<>>
    /\ c_tags = {}

\* no trip open in the saved-trip editor
IdleEditor ==
    /\ trip_activities = <<>>
    /\ edit_days = 0
    /\ next_id = 1
    /\ edits = 0

\* no account, no browser session on an auth screen
IdleAuth ==
    /\ users = <<>>
    /\ sessions = <<>>

IdleOthers == IdleClassifier /\ IdleEditor /\ IdleAuth /\ g_resp = None

IdleResolver ==
    /\ r_pc = "idle"
    /\ r_text = EmptyText
    /\ r_numDays = 1
    /\ r_name = <<>>
    /\ r_map = <<>>
    /\ r_day = 0

Init == InitSession /\ IdleResolver /\ IdleOthers

\* ------------------------------------------------------------------------
\* One script run of the plan tab
\* ------------------------------------------------------------------------

\* the values a selectbox keyed target_day_<i> can return when it is
\* rendered with n options and default index idx: a widget rendered before
\* with the same options and index keeps its value, a new one takes the
\* default, one whose options or index changed either takes the default or
\* keeps a value that is still among the options
SelectboxValues(old, i, n, idx) ==
    IF i \notin DOMAIN old THEN {idx + 1}
    ELSE IF old[i].nopts = n /\ old[i].index = idx THEN {old[i].value}
    ELSE {idx + 1} \cup ({old[i].value} \cap (1..n))

\* the widget states after the loop that renders the selectboxes
\* (lines 1271-1288)
WidgetOutcomes(old, temp, defaults, day_options) ==
    LET n == Len(day_options)
        idx(i) == SuggestedDay(i, defaults, day_options) - 1
        Idx == 0..(Len(temp) - 1)
    IN {[i \in Idx |-> [value |-> v[i], nopts |-> n, index |-> idx(i)]] :
           v \in {f \in [Idx -> 1..n] :
                     \A i \in Idx : f[i] \in SelectboxValues(old, i, n, idx(i))}}

\* render_dnd_itinerary(board, days, conflict_warnings=warn): the browser
\* loads the document generated from the arguments
RenderBoard(board, days, warn) ==
    /\ rendered' = <<[board |-> board, days |-> days, warnings |-> warn]>>
    /\ dom' = BuildDom(board, days, warn)
    /\ moves' = 0

\* a run in which the board block is not reached or not entered: the
\* elements of the block leave the page
NoBoard ==
    /\ rendered' = <<>>
    /\ dom' = <<>>
    /\ moves' = 0

\* the board block from the warnings of line 1232 to the render call of line
\* 1309, for a session whose handlers have finished: warnings stored,
\* selectboxes rendered, board rendered
BoardPass(temp, days, board, warn, defaults, old_widgets) ==
    /\ conflict_warnings' = warn
    /\ widgets' \in WidgetOutcomes(old_widgets, temp, defaults, DayOptions(days))
    /\ RenderBoard(board, days, warn)

\* the board block (lines 1228-1310) of a run that computes the warnings
\* from the board it renders
BoardBlock(temp, start, end, board, defaults, old_widgets) ==
    BoardPass(temp, date_range_days(start, end), board,
              compute_conflict_warnings(board), defaults, old_widgets)

\* the parent window has handled every message posted to it: a posted
\* message is handled before the user's next click starts a run
Quiet == wire = <<>>

\* the board is on the page and the session still has it
BoardOnPage == Quiet /\ dom # <<>> /\ BoardGuard(temp_activities, trip_start, trip_end)

\* ------------------------------------------------------------------------
\* Operations of the owning process (one action = one script run started
\* by the user's click, reruns included)
\* ------------------------------------------------------------------------

\* Generate Plan keeping the board it finds
GenerateReset_keepBoard(n) ==
    /\ nights' = n
    /\ trip_start' = StartDate
    /\ trip_end' = StartDate + n
    /\ UNCHANGED day_activities

\* the state reset of Generate Plan (lines 1148-1155)
GenerateReset(n) ==
    /\ nights' = n
    /\ trip_start' = StartDate
    /\ trip_end' = StartDate + n
    /\ day_activities' = [i \in 1..(n + 1) |-> <<>>]

\* defaults[i] for the suggestions of a response (lines 1191-1198)
DayDefaults(temp, narrative, num_days) ==
    LET day_map == parse_activity_day_defaults(narrative, num_days)
    IN [i \in 0..(Len(temp) - 1) |->
           guess_day_for_activity(NameOf(temp[i + 1]), day_map, 1)]

\* a filter that keeps every line of section one
HasPipe_every(l) == Len(l) >= 0

HasPipe(l) == \E k \in DOMAIN l : l[k] = "|"

\* what lines 1186-1198 compute from the dates and the response
ParsedResponse(n, resp) ==
    LET temp == SelectSeq(resp.section1, HasPipe)
        narrative == IF resp.marker THEN resp.narrative ELSE EmptyText
    IN [nights |-> n, temp |-> temp, narrative |-> narrative,
        defaults |-> DayDefaults(temp, narrative, n + 1)]

\* the inputs of Generate Plan: the dates picked and the response received
GenerateInputs == {ParsedResponse(n, resp) : n \in 0..MaxNights, resp \in Responses}

\* Generate Plan with a response from the AI collaborator
GeneratePlan(g) ==
    LET n == g.nights
        \* del st.session_state[widget_key] for the new suggestions
        kept == [i \in DOMAIN widgets \ (0..(Len(g.temp) - 1)) |-> widgets[i]]
    IN /\ Quiet
       /\ GenerateReset(n)
       /\ temp_activities' = g.temp
       /\ master_itinerary' = g.narrative
       /\ activity_day_defaults' = g.defaults
       /\ IF BoardGuard(g.temp, StartDate, StartDate + n)
          THEN BoardBlock(g.temp, StartDate, StartDate + n, day_activities', g.defaults, kept)
          ELSE /\ conflict_warnings' = EmptyDict
               /\ widgets' = EmptyDict
               /\ NoBoard
       /\ lastOp' = "generate"
       /\ inserted' = <<>>
       /\ UNCHANGED <<wire, resolver, others>>

\* a failing Generate Plan that resets nothing before the call
GeneratePlanFails_atomic(n) ==
    /\ Quiet
    /\ n \in 0..MaxNights
    /\ NoBoard
    /\ lastOp' = "generate_failed"
    /\ inserted' = <<>>
    /\ UNCHANGED <<session, widgets, wire, resolver, others>>

\* Generate Plan when the call to the AI collaborator raises: the run stops
\* after the reset, the exception replaces the rest of the page
GeneratePlanFails(n) ==
    /\ Quiet
    /\ GenerateReset(n)
    /\ activity_day_defaults' = EmptyDict
    /\ conflict_warnings' = EmptyDict
    /\ NoBoard
    /\ lastOp' = "generate_failed"
    /\ inserted' = <<>>
    /\ UNCHANGED <<temp_activities, master_itinerary, widgets, wire, resolver, others>>

\* a run without a handler (any other widget of the page changed)
Refresh ==
    /\ Quiet
    /\ IF BoardGuard(temp_activities, trip_start, trip_end)
       THEN BoardBlock(temp_activities, trip_start, trip_end, day_activities,
                       activity_day_defaults, widgets)
       ELSE /\ widgets' = EmptyDict
            /\ NoBoard
            /\ UNCHANGED conflict_warnings
    /\ lastOp' = "refresh"
    /\ inserted' = <<>>
    /\ UNCHANGED <<temp_activities, master_itinerary, day_activities, nights,
                   trip_start, trip_end, activity_day_defaults, wire, resolver, others>>

\* the user picks day d in the selectbox of suggestion i
SelectDay(i, d) ==
    /\ BoardOnPage
    /\ i \in DOMAIN widgets
    /\ d \in 1..widgets[i].nopts
    /\ d # widgets[i].value
    /\ BoardBlock(temp_activities, trip_start, trip_end, day_activities,
                  activity_day_defaults, [widgets EXCEPT ![i].value = d])
    /\ lastOp' = "refresh"
    /\ inserted' = <<>>
    /\ UNCHANGED <<temp_activities, master_itinerary, day_activities, nights,
                   trip_start, trip_end, activity_day_defaults, wire, resolver, others>>

\* the run of Apply All once its loop has left the board as `board`: then
\* st.rerun(), and the next run does the board block
ApplyAllRun(board) ==
    /\ CardCount(board) <= MaxCards
    /\ day_activities' = board
    /\ BoardBlock(temp_activities, trip_start, trip_end, board,
                  activity_day_defaults, widgets)
    /\ lastOp' = "apply_all"
    /\ inserted' = <<>>

\* Apply All to Trip (lines 1257-1267): the loop, then st.rerun()
ApplyAll ==
    /\ BoardOnPage
    /\ ApplyAllRun(ApplyAllLoop(day_activities,
                                SortedActivities(temp_activities, activity_day_defaults,
                                                 DayOptions(date_range_days(trip_start, trip_end))),
                                widgets))
    /\ UNCHANGED <<temp_activities, master_itinerary, nights, trip_start,
                   trip_end, activity_day_defaults, wire, resolver, others>>

\* the run of an add button whose handler leaves the board as `board`: the
\* run has computed the warnings (line 1232) from the board it found; when
\* the handler reruns, the next run does the whole board block again,
\* otherwise this run goes on to render the board with the warnings it has
AddRun(added, board) ==
    /\ CardCount(board) <= MaxCards
    /\ day_activities' = board
    /\ BoardPass(temp_activities, date_range_days(trip_start, trip_end), board,
                 compute_conflict_warnings(IF AddReruns(added) THEN board
                                           ELSE day_activities),
                 activity_day_defaults, widgets)
    /\ lastOp' = IF added THEN "add" ELSE "add_dup"
    /\ inserted' = <<>>

\* the add button of suggestion i (lines 1289-1295), with the day its
\* selectbox shows
AddIndividual(i) ==
    /\ BoardOnPage
    /\ i \in DOMAIN widgets
    /\ AddRun(~NameInDay(day_activities, widgets[i].value, NameOf(temp_activities[i + 1])),
              AddActivity(day_activities, i, NameOf(temp_activities[i + 1]),
                          TypeOf(temp_activities[i + 1]), widgets[i].value))
    /\ UNCHANGED <<temp_activities, master_itinerary, nights, trip_start,
                   trip_end, activity_day_defaults, wire, resolver, others>>

\* a variant that writes every row of a column with sort_order 0
RowsOfDay_unordered(day_num, activities) ==
    [k \in DOMAIN activities |->
        [day_number |-> day_num, activity_name |-> activities[k].name,
         activity_type |-> activities[k].type, sort_order |-> 0]]

\* the trip_activities rows of one column: enumerate(activities) gives
\* sort_order 0, 1, ...
RowsOfDay(day_num, activities) ==
    [k \in DOMAIN activities |->
        [day_number |-> day_num, activity_name |-> activities[k].name,
         activity_type |-> activities[k].type, sort_order |-> k - 1]]

\* the rows of the columns whose day is in days, in the order of the dict
\* (the keys are created in ascending order, line 1152)
RECURSIVE RowsOfDays(_, _)
RowsOfDays(board, days) ==
    IF days = {} THEN <<>>
    ELSE LET d == CHOOSE x \in days : \A y \in days : x <= y
         IN RowsOfDay(d, board[d]) \o RowsOfDays(board, days \ {d})

\* the INSERTs of lines 1347-1350
TripActivityRows(board) == RowsOfDays(board, DOMAIN board)

\* how a Save Trip run can end: everything committed and the session
\* cleared; an exception inside the first transaction, which rolls it back;
\* an exception after the first transaction has committed (the packing list
\* inserts of lines 1356-1360)
SaveOutcomes == {"saved", "rolled_back", "packing_failed"}

\* a reset that leaves the suggestion list and the trip dates in place
SessionCleared_keepSuggestions ==
    /\ day_activities' = EmptyDict
    /\ activity_day_defaults' = EmptyDict
    /\ conflict_warnings' = EmptyDict
    /\ master_itinerary' = EmptyText
    /\ UNCHANGED <<temp_activities, trip_start, trip_end>>

\* lines 1364-1372
SessionCleared ==
    /\ day_activities' = EmptyDict
    /\ activity_day_defaults' = EmptyDict
    /\ conflict_warnings' = EmptyDict
    /\ temp_activities' = <<>>
    /\ trip_start' = None
    /\ trip_end' = None
    /\ master_itinerary' = EmptyText

\* Save Trip (lines 1321-1375): the board block has been rendered when the
\* handler runs; a successful save clears the session, an exception leaves
\* it as it is
SaveTrip(outcome) ==
    /\ BoardOnPage
    /\ inserted' = IF outcome = "rolled_back" THEN <<>>
                   ELSE TripActivityRows(day_activities)
    /\ IF outcome = "saved"
       THEN /\ SessionCleared
            /\ lastOp' = "save"
       ELSE /\ conflict_warnings' = compute_conflict_warnings(day_activities)
            /\ lastOp' = IF outcome = "rolled_back" THEN "refresh" ELSE "save_partial"
            /\ UNCHANGED <<day_activities, activity_day_defaults, temp_activities,
                           trip_start, trip_end, master_itinerary>>
    /\ widgets' \in WidgetOutcomes(widgets, temp_activities, activity_day_defaults,
                                   DayOptions(date_range_days(trip_start, trip_end)))
    /\ RenderBoard(day_activities, date_range_days(trip_start, trip_end),
                   compute_conflict_warnings(day_activities))
    /\ UNCHANGED <<nights, wire, resolver, others>>

\* ------------------------------------------------------------------------
\* Operations of the rendered board (the script of render_dnd_itinerary)
\* ------------------------------------------------------------------------

\* a drag of the card at pos that ends in a drop on column newDay:
\* handleDragStart sets dragSrc to the card, handleDrop(e, newDay) moves it
\* and calls saveState; a drop with no dragSrc returns at once
handleDrop(pos, newDay) ==
    /\ pos \in CardPositions(dom)
    /\ \E k \in DOMAIN dom : dom[k].day = newDay
    /\ Len(wire) < MaxWire
    /\ moves < MaxMoves
    /\ moves' = moves + 1
    /\ dom' = DropInto(dom, pos, newDay)
    /\ wire' = Append(wire, SaveStatePayload(dom'))
    /\ lastOp' = "drop"
    /\ inserted' = <<>>
    /\ UNCHANGED <<session, widgets, rendered, resolver, others>>

\* deleteActivity(btn), saveState included
deleteActivity(pos) ==
    /\ pos \in CardPositions(dom)
    /\ Len(wire) < MaxWire
    /\ moves < MaxMoves
    /\ moves' = moves + 1
    /\ dom' = RemoveCard(dom, pos)
    /\ wire' = Append(wire, SaveStatePayload(dom'))
    /\ lastOp' = "delete"
    /\ inserted' = <<>>
    /\ UNCHANGED <<session, widgets, rendered, resolver, others>>

\* the posted payload reaches the parent window: st.components.v1.html
\* registers no component value and the caller drops the return value of
\* render_dnd_itinerary (line 1309), so the message changes nothing
PayloadDropped ==
    /\ wire # <<>>
    /\ wire' = Tail(wire)
    /\ lastOp' = "payload_dropped"
    /\ inserted' = <<>>
    /\ UNCHANGED <<session, widgets, rendered, dom, moves, resolver, others>>

Days == 1..(MaxNights + 1)

Next ==
    \/ \E g \in GenerateInputs : GeneratePlan(g)
    \/ \E n \in 0..MaxNights : GeneratePlanFails(n)
    \/ Refresh
    \/ \E i \in 0..(MaxCards - 1), d \in Days : SelectDay(i, d)
    \/ ApplyAll
    \/ \E i \in 0..(MaxCards - 1) : AddIndividual(i)
    \/ \E outcome \in SaveOutcomes : SaveTrip(outcome)
    \/ \E k \in Days, j \in 1..MaxCards, d \in Days : handleDrop(<<k, j>>, d)
    \/ \E k \in Days, j \in 1..MaxCards : deleteActivity(<<k, j>>)
    \/ PayloadDropped

Spec == Init /\ [][Next]_vars

\* ------------------------------------------------------------------------
\* A call of the mapper and the resolver on their own
\* ------------------------------------------------------------------------
Texts == UNION {[1..n -> NarrativeLines] : n \in 1..MaxLines} \cup {EmptyText}

InitResolver ==
    /\ InitSession
    /\ r_pc = "start"
    /\ r_text \in Texts
    /\ r_numDays \in 1..(MaxNights + 2)
    /\ r_name \in ActivityNames
    /\ r_map = <<>>
    /\ r_day = 0
    /\ IdleOthers

\* day_map = parse_activity_day_defaults(master_itinerary, num_days)
ResolverParse ==
    /\ r_pc = "start"
    /\ r_map' = parse_activity_day_defaults(r_text, r_numDays)
    /\ r_pc' = "parsed"
    /\ UNCHANGED <<session, widgets, rendered, client, lastOp, r_text, r_numDays, r_name, r_day,
                   inserted, others>>

\* suggested = guess_day_for_activity(act_name, day_map, default_day=1)
ResolverGuess ==
    /\ r_pc = "parsed"
    /\ r_day' = guess_day_for_activity(r_name, r_map, 1)
    /\ r_pc' = "done"
    /\ UNCHANGED <<session, widgets, rendered, client, lastOp, r_text, r_numDays, r_name, r_map,
                   inserted, others>>

NextResolver == ResolverParse \/ ResolverGuess

SpecResolver == InitResolver /\ [][NextResolver]_vars

\* ------------------------------------------------------------------------
\* A call of the analyzer on its own
\* ------------------------------------------------------------------------
\* the cards a board given to the analyzer is made of
AnalyzerCards ==
    {[id |-> ActId(0, 1), name |-> NameOf(l), type |-> TypeOf(l)] :
        l \in KnownLines \cup {sNight}}

AnalyzerColumns == UNION {[1..n -> AnalyzerCards] : n \in 0..MaxCards}

\* a late night and an early start, the other way round
DuskDawn ==
    <<[id |-> ActId(1, 2), name |-> NameOf(sDusk), type |-> TypeOf(sDusk)],
      [id |-> ActId(0, 2), name |-> NameOf(sDawn), type |-> TypeOf(sDawn)]>>

\* boards with no day, with empty columns, with any column on day 1
AnalyzerBoards ==
    {EmptyDict} \cup
    {[d \in 1..k |-> IF d = 1 THEN c ELSE t] :
        k \in Days, c \in AnalyzerColumns, t \in {<<>>, DuskDawn}}

InitAnalyzer ==
    /\ temp_activities = <<>>
    /\ master_itinerary = EmptyText
    /\ day_activities \in AnalyzerBoards
    /\ nights = 0
    /\ trip_start = None
    /\ trip_end = None
    /\ activity_day_defaults = EmptyDict
    /\ conflict_warnings = EmptyDict
    /\ widgets = EmptyDict
    /\ rendered = <<>>
    /\ dom = <<>>
    /\ wire = <<>>
    /\ moves = 0
    /\ lastOp = "init"
    /\ inserted = <<>>
    /\ IdleResolver
    /\ IdleOthers

\* conflict_warnings = compute_conflict_warnings(day_activities)
Analyze ==
    /\ lastOp = "init"
    /\ conflict_warnings' = compute_conflict_warnings(day_activities)
    /\ lastOp' = "analyze"
    /\ UNCHANGED <<temp_activities, master_itinerary, day_activities, nights,
                   trip_start, trip_end, activity_day_defaults, widgets,
                   rendered, client, resolver, inserted, others>>

NextAnalyzer == Analyze

SpecAnalyzer == InitAnalyzer /\ [][NextAnalyzer]_vars

\* ------------------------------------------------------------------------
\* classify_activity on its own
\* ------------------------------------------------------------------------
\* the call is tried on 8 names and 7 types
InitClassifier ==
    /\ InitSession
    /\ IdleResolver
    /\ IdleEditor /\ IdleAuth /\ g_resp = None
    /\ c_pc = "ready"
    /\ c_name \in
          {<<"K","a","y","a","k">>,
           <<"R","a","n","g","e","r">>,
           <<"S","u","n","s","e","t"," ","H","i","k","e">>,
           <<"V","i","s","i","t">>,
           <<"N","I","G","H","T"," ","S","w","i","m">>,
           <<"D","a","w","n">>,
           <<"M","u","s","e","u","m">>,
           <<>> }
    /\ c_type \in
          {<<"W","a","l","k">>,
           <<"T","o","u","r">>,
           <<"T","r","a","i","l">>,
           <<>>,
           <<"A","c","t","i","v","i","t","y">>,
           <<"E","v","e","n","i","n","g">>,
           <<"E","a","r","l","y"," ","b","i","r","d">> }
    /\ c_tags = {}

\* tags = classify_activity(name, atype)
Classify ==
    /\ c_pc = "ready"
    /\ c_tags' = classify_activity(c_name, c_type)
    /\ c_pc' = "done"
    /\ UNCHANGED <<session, widgets, rendered, client, lastOp, resolver, inserted,
                   c_name, c_type, trip_activities, edit_days, next_id, edits,
                   users, sessions, g_resp>>

SpecClassifier == InitClassifier /\ [][Classify]_vars

\* ------------------------------------------------------------------------
\* The saved-trip editor (lines 1513-1553) on the activities of one trip
\* ------------------------------------------------------------------------
\* boards a trip can have been saved from: two days, up to two cards a
\* day, no name twice in a day
EditorBoards ==
    LET cards == {[id |-> ActId(0, 1), name |-> NameOf(l), type |-> TypeOf(l)] :
                     l \in {sHike, sTrek}}
        columns == {c \in UNION {[1..n -> cards] : n \in 0..2} :
                       \A j, k \in DOMAIN c : c[j].name = c[k].name => j = k}
    IN {[d \in 1..2 |-> IF d = 1 THEN c1 ELSE c2] : c1 \in columns, c2 \in columns}

\* the trip's rows as Save Trip wrote them, with the ids the table's
\* sequence gave them
InitEditor ==
    /\ InitSession
    /\ IdleResolver
    /\ IdleClassifier /\ IdleAuth /\ g_resp = None
    /\ \E board \in EditorBoards :
          LET rows == TripActivityRows(board)
          IN /\ trip_activities =
                   [k \in DOMAIN rows |->
                       [id |-> k, day_number |-> rows[k].day_number,
                        activity_name |-> rows[k].activity_name,
                        activity_type |-> rows[k].activity_type,
                        sort_order |-> rows[k].sort_order]]
             /\ next_id = Len(rows) + 1
    /\ edit_days = 2
    /\ edits = 0

\* the Add button (lines 1532-1539) for the activity Swim on day new_act_day
EditorAdd(new_act_day) ==
    LET orders == {trip_activities[k].sort_order :
                      k \in {j \in DOMAIN trip_activities :
                                trip_activities[j].day_number = new_act_day}}
        \* SELECT COALESCE(MAX(sort_order),0)
        max_order == IF orders = {} THEN 0
                     ELSE CHOOSE m \in orders : \A o \in orders : o <= m
    IN /\ edits < MaxEdits
       /\ new_act_day \in 1..edit_days
       /\ trip_activities' =
             Append(trip_activities,
                    [id |-> next_id, day_number |-> new_act_day,
                     activity_name |-> qSwim, activity_type |-> <<>>,
                     sort_order |-> max_order + 1])
       /\ next_id' = next_id + 1
       /\ edits' = edits + 1
       /\ UNCHANGED <<session, widgets, rendered, client, lastOp, resolver, inserted,
                      c_pc, c_name, c_type, c_tags, users, sessions, g_resp,
                      edit_days>>

\* the Move button of row k (lines 1546-1549): UPDATE ... SET day_number
EditorMove(k, move_day) ==
    /\ edits < MaxEdits
    /\ k \in DOMAIN trip_activities
    /\ move_day \in 1..edit_days
    /\ trip_activities' = [trip_activities EXCEPT ![k].day_number = move_day]
    /\ edits' = edits + 1
    /\ UNCHANGED <<session, widgets, rendered, client, lastOp, resolver, inserted,
                   c_pc, c_name, c_type, c_tags, users, sessions, g_resp,
                   edit_days, next_id>>

\* the delete button of row k (lines 1550-1553)
EditorDelete(k) ==
    /\ edits < MaxEdits
    /\ k \in DOMAIN trip_activities
    /\ trip_activities' = RemoveAt(trip_activities, k)
    /\ edits' = edits + 1
    /\ UNCHANGED <<session, widgets, rendered, client, lastOp, resolver, inserted,
                   c_pc, c_name, c_type, c_tags, users, sessions, g_resp,
                   edit_days, next_id>>

SpecEditor ==
    InitEditor /\ [][\/ \E d \in 1..2 : EditorAdd(d)
                     \/ \E k \in DOMAIN trip_activities, d \in 1..2 : EditorMove(k, d)
                     \/ \E k \in DOMAIN trip_activities : EditorDelete(k)]_vars

\* ------------------------------------------------------------------------
\* Accounts and the auth screens (lines 468-493, 499-666, 703-731)
\* ------------------------------------------------------------------------
\* bcrypt.hashpw(plain, gensalt()): a value that verifies plain and nothing
\* else; a NULL or empty password_hash is <<>>
hash_password(plain) == <<"$","2","b","$">> \o plain

\* bcrypt.checkpw(plain, hashed)
check_password(plain, hashed) == hashed = <<"$","2","b","$">> \o plain

\* the error found in pw, "none" for None
validate_password(pw) ==
    IF Len(pw) < 8 THEN "short"
    ELSE IF ~\E i \in DOMAIN pw : IsUpper(pw[i]) \/ IsLower(pw[i]) THEN "no_letter"
    ELSE IF ~\E i \in DOMAIN pw : IsDigit(pw[i]) THEN "no_number"
    ELSE "none"

\* dob.strftime("%m%d%Y") for a date <<year, month, day>>
dob_to_password(dob) ==
    LET Pad(n, w) == [i \in 1..(w - Len(ToStr(n))) |-> "0"] \o ToStr(n)
    IN Pad(dob[2], 2) \o Pad(dob[3], 2) \o Pad(dob[1], 4)

\* a check that never recognises the reset password
is_dob_password_never(plain, dob) == FALSE

is_dob_password(plain, dob) == plain = dob_to_password(dob)

\* what is typed into a password box: the reset password of 2 Jan 1990, two
\* passwords that validate, one too short, one without a number
PasswordInputs ==
    {<<"0","1","0","2","1","9","9","0">>,
     <<"t","r","a","i","l","2","0","2","4">>,
     <<"r","i","v","e","r","2","0","2","5">>,
     <<"a","b","1">>,
     <<"a","b","c","d","e","f","g","h">>}

\* one account, with or without a password (an account from before
\* passwords were required), with or without a date of birth; after a reset
\* the hash is that of the date of birth. Every session is on the login
\* screen; checked is the set of accounts whose password the session has
\* verified with check_password, kept for the properties
InitAuth ==
    /\ InitSession
    /\ IdleResolver
    /\ IdleClassifier /\ IdleEditor /\ g_resp = None
    /\ \E ph \in {<<>>, hash_password(<<"t","r","a","i","l","2","0","2","4">>),
                  hash_password(<<"0","1","0","2","1","9","9","0">>)},
          dob \in {<<>>, <<1990, 1, 2>>} :
          /\ ph = hash_password(<<"0","1","0","2","1","9","9","0">>) => dob # <<>>
          /\ users = <<[password_hash |-> ph, date_of_birth |-> dob]>>
    /\ sessions = [s \in 1..MaxSessions |->
                      [logged_in |-> FALSE, auth_screen |-> "login",
                       pending_uid |-> None, uid |-> None, checked |-> {}]]

\* the Log In button (lines 626-658) with the row of username u, if any
Login(s, u, pw) ==
    /\ ~sessions[s].logged_in
    /\ sessions[s].auth_screen = "login"
    /\ IF u \notin DOMAIN users
       THEN /\ lastOp' = "login_error"
            /\ UNCHANGED sessions
       ELSE IF users[u].password_hash = <<>>
       THEN /\ sessions' = [sessions EXCEPT ![s].pending_uid = u,
                                            ![s].auth_screen = "set_password"]
            /\ lastOp' = "login_set_password"
       ELSE IF ~check_password(pw, users[u].password_hash)
       THEN /\ lastOp' = "login_error"
            /\ UNCHANGED sessions
       ELSE IF users[u].date_of_birth # <<>>
               /\ is_dob_password(pw, users[u].date_of_birth)
       THEN /\ sessions' = [sessions EXCEPT ![s].pending_uid = u,
                                            ![s].uid = u,
                                            ![s].checked = @ \cup {u},
                                            ![s].auth_screen = "force_change"]
            /\ lastOp' = "login_force_change"
       ELSE /\ sessions' = [sessions EXCEPT ![s].pending_uid = None,
                                            ![s].uid = u,
                                            ![s].checked = @ \cup {u},
                                            ![s].logged_in = TRUE,
                                            ![s].auth_screen = "login"]
            /\ lastOp' = "login_ok"
    /\ UNCHANGED users
    /\ UNCHANGED <<session, widgets, rendered, client, resolver, inserted,
                   c_pc, c_name, c_type, c_tags, trip_activities, edit_days,
                   next_id, edits, g_resp>>

\* the Set Password button of the set_password and force_change screens
\* (lines 515-536)
SetPassword(s, pw1, pw2) ==
    /\ ~sessions[s].logged_in
    /\ sessions[s].auth_screen \in {"set_password", "force_change"}
    /\ IF validate_password(pw1) # "none" \/ pw1 # pw2
       THEN /\ lastOp' = "set_error"
            /\ UNCHANGED <<users, sessions>>
       ELSE /\ users' = [users EXCEPT ![sessions[s].pending_uid].password_hash =
                                           hash_password(pw1)]
            /\ sessions' = [sessions EXCEPT ![s].uid = sessions[s].pending_uid,
                                            ![s].logged_in = TRUE,
                                            ![s].auth_screen = "login",
                                            ![s].pending_uid = None]
            /\ lastOp' = IF sessions[s].auth_screen = "force_change"
                         THEN "force_change_done" ELSE "set_password_done"
    /\ UNCHANGED <<session, widgets, rendered, client, resolver, inserted,
                   c_pc, c_name, c_type, c_tags, trip_activities, edit_days,
                   next_id, edits, g_resp>>

\* the buttons that only change the screen: Forgot password? (line 664),
\* Back to Login of the set_password and force_change screens (lines
\* 537-540) and of the reset screen (lines 575-577)
SwitchScreen(s, to) ==
    /\ ~sessions[s].logged_in
    /\ \/ /\ sessions[s].auth_screen = "login"
          /\ to = "reset"
          /\ sessions' = [sessions EXCEPT ![s].auth_screen = to]
       \/ /\ sessions[s].auth_screen \in {"set_password", "force_change"}
          /\ to = "login"
          /\ sessions' = [sessions EXCEPT ![s].auth_screen = to,
                                          ![s].pending_uid = None]
       \/ /\ sessions[s].auth_screen = "reset"
          /\ to = "login"
          /\ sessions' = [sessions EXCEPT ![s].auth_screen = to]
    /\ lastOp' = "switch"
    /\ UNCHANGED users
    /\ UNCHANGED <<session, widgets, rendered, client, resolver, inserted,
                   c_pc, c_name, c_type, c_tags, trip_activities, edit_days,
                   next_id, edits, g_resp>>

\* the Reset Password button (lines 548-574)
ResetPassword(s, reset_u, reset_dob) ==
    /\ ~sessions[s].logged_in
    /\ sessions[s].auth_screen = "reset"
    /\ IF /\ reset_u \in DOMAIN users
          /\ users[reset_u].date_of_birth # <<>>
          /\ users[reset_u].date_of_birth = reset_dob
       THEN /\ users' = [users EXCEPT ![reset_u].password_hash =
                            hash_password(dob_to_password(users[reset_u].date_of_birth))]
            /\ sessions' = [sessions EXCEPT ![s].auth_screen = "login"]
            /\ lastOp' = "reset_done"
       ELSE /\ lastOp' = "reset_error"
            /\ UNCHANGED <<users, sessions>>
    /\ UNCHANGED <<session, widgets, rendered, client, resolver, inserted,
                   c_pc, c_name, c_type, c_tags, trip_activities, edit_days,
                   next_id, edits, g_resp>>

\* the Update Password button of a logged-in session (lines 707-725)
ChangePassword(s, cp_current, cp_new1, cp_new2) ==
    LET current_uid == sessions[s].uid
    IN /\ sessions[s].logged_in
       /\ IF \/ users[current_uid].password_hash = <<>>
             \/ ~check_password(cp_current, users[current_uid].password_hash)
          THEN /\ lastOp' = "change_error"
               /\ UNCHANGED <<users, sessions>>
          ELSE /\ sessions' = [sessions EXCEPT ![s].checked = @ \cup {current_uid}]
               /\ IF validate_password(cp_new1) # "none" \/ cp_new1 # cp_new2
                  THEN /\ lastOp' = "change_error"
                       /\ UNCHANGED users
                  ELSE /\ users' = [users EXCEPT ![current_uid].password_hash =
                                                      hash_password(cp_new1)]
                       /\ lastOp' = "change_done"
       /\ UNCHANGED <<session, widgets, rendered, client, resolver, inserted,
                   c_pc, c_name, c_type, c_tags, trip_activities, edit_days,
                   next_id, edits, g_resp>>

\* the Log Out button (lines 728-732)
LogOut(s) ==
    /\ sessions[s].logged_in
    /\ sessions' = [sessions EXCEPT ![s].logged_in = FALSE,
                                    ![s].uid = None,
                                    ![s].auth_screen = "login"]
    /\ lastOp' = "logout"
    /\ UNCHANGED users
    /\ UNCHANGED <<session, widgets, rendered, client, resolver, inserted,
                   c_pc, c_name, c_type, c_tags, trip_activities, edit_days,
                   next_id, edits, g_resp>>

SpecAuth ==
    InitAuth /\ [][\E s \in 1..MaxSessions :
                      \/ \E u \in 1..2, pw \in PasswordInputs : Login(s, u, pw)
                      \/ \E pw1, pw2 \in PasswordInputs : SetPassword(s, pw1, pw2)
                      \/ \E to \in {"login", "reset"} : SwitchScreen(s, to)
                      \/ \E u \in 1..2, dob \in {<<1990, 1, 2>>, <<1990, 2, 1>>} :
                            ResetPassword(s, u, dob)
                      \/ \E cur, new1, new2 \in PasswordInputs :
                            ChangePassword(s, cur, new1, new2)
                      \/ LogOut(s)]_vars

\* ------------------------------------------------------------------------
\* Generate Plan on its own: a fresh session, the response the AI call
\* returns drawn from a bounded set
\* ------------------------------------------------------------------------
\* section one of up to MaxLines lines, each a suggestion, a line without
\* separator or an empty line; the itinerary section absent, or present
\* with one of two narratives
ResponseInputs ==
    {[section1 |-> s1, marker |-> t.marker, narrative |-> t.narrative] :
        s1 \in UNION {[1..k -> {sHike, sTrek, sDawn, sDusk, sIntro, <<>>}] :
                         k \in 0..MaxLines},
        t \in {[marker |-> FALSE, narrative |-> EmptyText],
                [marker |-> TRUE, narrative |-> <<nDay1, nHike, nDay2, nTrek>>],
                [marker |-> TRUE, narrative |-> <<nDay2, nTrek>>]}}

InitGenerate ==
    /\ InitSession
    /\ IdleResolver
    /\ IdleClassifier /\ IdleEditor /\ IdleAuth
    /\ g_resp \in ResponseInputs

\* the Generate Plan handler on the response received
GenerateFrom(n) ==
    /\ lastOp = "init"
    /\ GeneratePlan(ParsedResponse(n, g_resp))

SpecGenerate == InitGenerate /\ [][\E n \in 0..MaxNights : GenerateFrom(n)]_vars

\* ------------------------------------------------------------------------
\* Properties
\* ------------------------------------------------------------------------
TotalDays == Len(date_range_days(trip_start, trip_end))

\* a posted payload read back as a board: day keys as numbers, the lists
\* verbatim
BoardFromPayload(p) ==
    [d \in {ToInt(key) : key \in DOMAIN p} |-> p[ToStr(d)]]

\* the ordered (name, type) pairs of every day of a board
Triples(board, days) ==
    [d \in days |-> [j \in DOMAIN board[d] |-> <<board[d][j].name, board[d][j].type>>]]

NamesDistinct(cards) ==
    \A i, j \in DOMAIN cards : cards[i].name = cards[j].name => i = j

\* a step of the rendered board's script that changes the document
ClientMutation == moves' = moves + 1

\* the id, name and type of a card of the document
CardContent(c) == [id |-> c.id, name |-> c.name, type |-> c.type]

\* C1: when a posted payload reaches the owning process, the session's
\* board becomes the content of that payload.
C1_PayloadReplacesBoard ==
    [][PayloadDropped => day_activities' = BoardFromPayload(Head(wire))]_vars

\* C2: no day column, of the session's board or of the rendered board,
\* holds two activities with the same name.
C2_NamesUniquePerDay ==
    /\ \A d \in DOMAIN day_activities : NamesDistinct(day_activities[d])
    /\ \A k \in DOMAIN dom : NamesDistinct(dom[k].cards)

\* C3: the session's board has no column outside 1..total_days of the
\* current trip dates, and the rendered board has exactly the columns of
\* the days it was rendered for, every card carrying its column's day.
C3_DaysInRange ==
    /\ DOMAIN day_activities \subseteq 1..TotalDays
    /\ rendered # <<>> =>
          /\ Len(dom) = Len(rendered[1].days)
          /\ \A k \in DOMAIN dom :
                /\ dom[k].day = k
                /\ \A j \in DOMAIN dom[k].cards : dom[k].cards[j].day = k

C3_Witness ==
    /\ lastOp = "apply_all"
    /\ TotalDays = 2
    /\ day_activities[2] # <<>>
    /\ day_activities[1] # <<>>

\* C4: an add of a name the target day already holds leaves the board as it
\* is (add button), and Apply All only appends to columns, never a name a
\* column already holds.
C4_DuplicateAddIsNoOp ==
    [][/\ \A i \in 0..(MaxCards - 1) :
             (/\ AddIndividual(i)
              /\ NameInDay(day_activities, widgets[i].value, NameOf(temp_activities[i + 1])))
             => day_activities' = day_activities
       /\ ApplyAll =>
             \A d \in DOMAIN day_activities :
                /\ d \in DOMAIN day_activities'
                /\ Len(day_activities'[d]) >= Len(day_activities[d])
                /\ SubSeq(day_activities'[d], 1, Len(day_activities[d])) = day_activities[d]
                /\ NamesDistinct(day_activities'[d])]_vars

C4_Witness ==
    /\ lastOp = "add_dup"
    /\ temp_activities = <<sHike, sHikeTour>>
    /\ \E d \in DOMAIN day_activities :
          /\ widgets[1].value = d
          /\ widgets[0].value # d
          /\ day_activities[d] = <<[id |-> ActId(0, d), name |-> SuggestionName(sHike),
                                    type |-> SuggestionType(sHike)]>>

\* C5: a drop moves the dragged card to the end of the target column with
\* its id, name and type; every other card keeps its column and its order,
\* and the number of cards stays the same.
C5_DropMovesCardToEnd ==
    [][\A k \in Days, j \in 1..MaxCards, d \in Days :
          handleDrop(<<k, j>>, d) =>
             LET card == dom[k].cards[j]
                 rest(c) == IF c = k THEN RemoveAt(dom[c].cards, j) ELSE dom[c].cards
                 t == ColumnOfDay(dom, d)
             IN /\ Len(dom') = Len(dom)
                /\ dom'[t].cards # <<>>
                /\ CardContent(dom'[t].cards[Len(dom'[t].cards)]) = CardContent(card)
                /\ SubSeq(dom'[t].cards, 1, Len(dom'[t].cards) - 1) = rest(t)
                /\ \A c \in DOMAIN dom : c # t => dom'[c].cards = rest(c)]_vars

C5_Witness ==
    /\ lastOp = "drop"
    /\ rendered # <<>>
    /\ Len(dom) = 2
    /\ Len(rendered[1].board[1]) = 2
    /\ Len(dom[1].cards) = 1
    /\ Len(dom[2].cards) = 2
    /\ dom[2].cards[2].id = rendered[1].board[1][1].id

\* C6: on the render pass that follows a drop or a delete, the warnings
\* shown for each day are those of the cards the rendered board held for
\* that day after the change.
C6_NextRenderShowsWarningsOfChange ==
    [][(moves > 0 /\ Refresh /\ rendered' # <<>>) =>
          \A k \in DOMAIN dom' : dom'[k].warnings = DayWarnings(dom[k].cards)]_vars

\* C7: the stored warnings are those of the session's board, and every
\* render is given the session's board together with the warnings computed
\* from that very board, which are the warnings the columns show.
C7_WarningsOfCurrentBoard ==
    /\ conflict_warnings = compute_conflict_warnings(day_activities)
    /\ rendered # <<>> =>
          /\ rendered[1].warnings = compute_conflict_warnings(rendered[1].board)
          /\ BoardGuard(temp_activities, trip_start, trip_end) =>
                rendered[1].board = day_activities
          /\ \A k \in DOMAIN dom :
                dom[k].warnings = Get(rendered[1].warnings, dom[k].day, <<>>)

C7_Witness ==
    /\ lastOp = "add"
    /\ rendered # <<>>
    /\ conflict_warnings # EmptyDict
    /\ \E k \in DOMAIN dom : dom[k].warnings # <<>>

\* C8: the payload of the unmodified rendered board, read back as a board,
\* has the same ordered (day, name, type) triples as the board rendered.
C8_RoundTrip ==
    (rendered # <<>> /\ moves = 0) =>
        LET days == {rendered[1].days[k][1] : k \in DOMAIN rendered[1].days}
        IN Triples(BoardFromPayload(SaveStatePayload(dom)), days)
              = Triples(rendered[1].board, days)

\* C9: a drop or a delete posts exactly one payload; it has one key per
\* column of the rendered board, empty columns included, each with the
\* column's cards in order as id, name and type and nothing else.
C9_OnePayloadOfWholeBoard ==
    [][ClientMutation =>
          /\ Len(wire') = Len(wire) + 1
          /\ SubSeq(wire', 1, Len(wire)) = wire
          /\ LET p == wire'[Len(wire')]
             IN /\ DOMAIN p = {ToStr(dom'[k].day) : k \in DOMAIN dom'}
                /\ Cardinality(DOMAIN p) = Len(dom')
                /\ \A k \in DOMAIN dom' :
                      p[ToStr(dom'[k].day)] =
                         [j \in DOMAIN dom'[k].cards |-> CardContent(dom'[k].cards[j])]]_vars

C9_Witness ==
    /\ lastOp = "delete"
    /\ Len(wire) = 1
    /\ Len(dom) = 2
    /\ dom[1].cards = <<>>
    /\ dom[2].cards # <<>>
    /\ DOMAIN wire[1] = {<<"1">>, <<"2">>}
    /\ wire[1][<<"1">>] = <<>>

\* C10: the day the resolver returns for a name, the empty name included,
\* against a day map parsed for numDays days lies in 1..numDays.
C10_GuessInRange ==
    r_pc = "done" => r_day \in 1..r_numDays

C10_Witness ==
    /\ r_pc = "done"
    /\ r_name = <<>>
    /\ r_map # <<>>
    /\ r_numDays = 2
    /\ r_day = 2

\* the warnings of the given kinds among the warnings stored for day d
WarningsOfKind(d, kinds) ==
    SelectSeq(Get(conflict_warnings, d, <<>>), LAMBDA w : w.kind \in kinds)

\* loads are the strenuous-load warnings of a day whose strenuous
\* activities are named s
LoadWarningsFit(s, loads) ==
    /\ Len(loads) = IF Len(s) >= 2 THEN 1 ELSE 0
    /\ \A k \in DOMAIN loads :
          /\ loads[k].names = s
          /\ loads[k].kind = IF Len(s) >= 3 THEN "heavy_day" ELSE "back_to_back"

\* C11: for every day of the analyzed board there is exactly one
\* strenuous-load warning when the day has at least 2 strenuous activities:
\* heavy day naming all of them in column order for 3 or more, back-to-back
\* naming both for exactly 2; never both kinds, none below 2.
C11_OneLoadWarning ==
    lastOp = "analyze" =>
        \A d \in DOMAIN day_activities :
            LoadWarningsFit(Names(Tagged(day_activities[d], "strenuous")),
                            WarningsOfKind(d, {"heavy_day", "back_to_back"}))

C11_Witness ==
    /\ lastOp = "analyze"
    /\ 1 \in DOMAIN day_activities
    /\ Names(day_activities[1]) = <<NameOf(sClimb), NameOf(sHike), NameOf(sTrek)>>
    /\ conflict_warnings[1] =
          <<[kind |-> "heavy_day",
             names |-> <<NameOf(sClimb), NameOf(sHike), NameOf(sTrek)>>]>>

\* sleeps are the sleep-conflict warnings of a day with the given night
\* and early activities
SleepWarningsFit(night_acts, early_acts, sleeps) ==
    /\ Len(sleeps) = IF night_acts # <<>> /\ early_acts # <<>> THEN 1 ELSE 0
    /\ \A k \in DOMAIN sleeps :
          /\ Len(sleeps[k].names) = 2
          /\ Range(sleeps[k].names) = {night_acts[1].name, early_acts[1].name}

\* C12: a day of the analyzed board has exactly one sleep-conflict warning
\* if and only if it holds a night activity and an early activity, and the
\* warning names the first night and the first early activity of the column.
C12_SleepConflict ==
    lastOp = "analyze" =>
        \A d \in DOMAIN day_activities :
            SleepWarningsFit(Tagged(day_activities[d], "night"),
                             Tagged(day_activities[d], "early"),
                             WarningsOfKind(d, {"sleep_conflict"}))

C12_Witness ==
    /\ lastOp = "analyze"
    /\ 1 \in DOMAIN day_activities
    /\ Names(day_activities[1]) = <<NameOf(sDusk), NameOf(sNight), NameOf(sDawn)>>
    /\ conflict_warnings[1] =
          <<[kind |-> "sleep_conflict", names |-> <<NameOf(sNight), NameOf(sDusk)>>]>>

\* C13: the analyzer's result has an entry only for days of the board that
\* have at least one warning, never an empty list, and a board with no days
\* or with only empty columns gives the empty map.
C13_NoEmptyEntries ==
    lastOp = "analyze" =>
        /\ \A d \in DOMAIN conflict_warnings :
              d \in DOMAIN day_activities /\ conflict_warnings[d] # <<>>
        /\ (\A d \in DOMAIN day_activities : day_activities[d] = <<>>)
              => conflict_warnings = EmptyDict

C13_Witness ==
    /\ lastOp = "analyze"
    /\ DOMAIN day_activities = {1, 2}
    /\ day_activities[1] = <<>>
    /\ DOMAIN conflict_warnings = {2}

\* the day number of the marker of a line: <<>> without a marker
MarkerOf(line) == DaySearch(Strip(line))

\* the line is a header: its marker's number lies in 1..n
IsHeader(line, n) ==
    MarkerOf(line) # <<>> /\ MarkerOf(line)[1] \in 1..n

\* the line carries a marker whose number lies outside 1..n
IsOutOfRange(line, n) ==
    MarkerOf(line) # <<>> /\ MarkerOf(line)[1] \notin 1..n

\* a non-empty line without a day marker
IsPlain(line) == Strip(line) # <<>> /\ MarkerOf(line) = <<>>

\* the key a stored line has in the day map
KeyOf(line) == Lower(Strip(line))

\* currentDay after the first k lines: the number of the last header
\* among them, 1 when there is none
RECURSIVE CurrentDayAt(_, _, _)
CurrentDayAt(text, k, n) ==
    IF k = 0 THEN 1
    ELSE IF IsHeader(text[k], n) THEN MarkerOf(text[k])[1]
    ELSE CurrentDayAt(text, k - 1, n)

\* no later line of the text has the key of line k
LastOfItsKey(text, k) ==
    \A j \in (k + 1)..Len(text) : KeyOf(text[j]) # KeyOf(text[k])

\* the day map stores key with day
Stored(day_map, key, day) ==
    \E i \in DOMAIN day_map : day_map[i].text = key /\ day_map[i].day = day

\* C15: in the parsed map a header line (marker in 1..numDays) is absent
\* even when it carries more text; every non-empty line without a marker
\* is a key, trimmed and lowercased, whose day is the currentDay in force at
\* its last occurrence; every stored day lies in 1..numDays.
C15_ParsedMap ==
    r_pc \in {"parsed", "done"} =>
        /\ \A k \in DOMAIN r_text :
              /\ IsHeader(r_text[k], r_numDays) => KeyOf(r_text[k]) \notin DictKeys(r_map)
              /\ (IsPlain(r_text[k]) /\ LastOfItsKey(r_text, k)) =>
                    Stored(r_map, KeyOf(r_text[k]), CurrentDayAt(r_text, k, r_numDays))
        /\ \A i, j \in DOMAIN r_map :
              /\ r_map[i].day \in 1..r_numDays
              /\ r_map[i].text = r_map[j].text => i = j

C15_Witness ==
    /\ r_pc = "parsed"
    /\ r_text = <<nHike, nDay3Climb, nHike>>
    /\ r_numDays = 3
    /\ r_map = <<[text |-> Lower(nHike), day |-> 3]>>

\* the plain lines after line k and before the next header keep the day
\* that was current before line k
PointerKept(text, k, n, day_map) ==
    \A j \in (k + 1)..Len(text) :
        (/\ IsPlain(text[j])
         /\ LastOfItsKey(text, j)
         /\ \A h \in (k + 1)..j : ~IsHeader(text[h], n))
        => Stored(day_map, KeyOf(text[j]), CurrentDayAt(text, k - 1, n))

\* C16: a day marker whose number is outside 1..numDays leaves the current
\* day unchanged: the lines after it are keyed to the day in force before
\* it.
C16_OutOfRangeKeepsDay ==
    r_pc \in {"parsed", "done"} =>
        \A k \in DOMAIN r_text :
            IsOutOfRange(r_text[k], r_numDays) => PointerKept(r_text, k, r_numDays, r_map)

C16_Witness ==
    /\ r_pc = "parsed"
    /\ r_text = <<nDay2, nDay9, nHike>>
    /\ r_numDays = 2
    /\ r_map = <<[text |-> Lower(nHike), day |-> 2]>>

\* C17: a non-empty line whose day marker number lies outside 1..numDays
\* is stored in the day map, lowercased, with the unchanged currentDay.
C17_OutOfRangeLineStored ==
    r_pc \in {"parsed", "done"} =>
        \A k \in DOMAIN r_text :
            (IsOutOfRange(r_text[k], r_numDays) /\ LastOfItsKey(r_text, k)) =>
                Stored(r_map, KeyOf(r_text[k]), CurrentDayAt(r_text, k, r_numDays))

\* C17 as amended: a line whose day marker number lies outside 1..numDays
\* is not a header, as currentDay stays what it was, and it is not stored
\* in the day map either.
C17_OutOfRangeLineLeftOut ==
    r_pc \in {"parsed", "done"} =>
        \A k \in DOMAIN r_text :
            IsOutOfRange(r_text[k], r_numDays) =>
                /\ KeyOf(r_text[k]) \notin DictKeys(r_map)
                /\ PointerKept(r_text, k, r_numDays, r_map)

C17_Witness ==
    /\ r_pc = "parsed"
    /\ r_text = <<nDay2, nDay3Climb, nTrek>>
    /\ r_numDays = 2
    /\ r_map = <<[text |-> Lower(nTrek), day |-> 2]>>

\* the distinct elements of a sequence in the order of their first
\* appearance
RECURSIVE FirstAppearance(_)
FirstAppearance(keys) ==
    IF keys = <<>> THEN <<>>
    ELSE LET init == FirstAppearance(SubSeq(keys, 1, Len(keys) - 1))
         IN IF keys[Len(keys)] \in Range(init) THEN init
            ELSE Append(init, keys[Len(keys)])

\* the keys of the lines of a narrative that are stored, in line order
StoredKeys(text) ==
    LET plain == SelectSeq(text, IsPlain)
    IN [k \in DOMAIN plain |-> KeyOf(plain[k])]

\* one of the two texts contains the other
SubstringRelated(a, b) == Contains(a, b) \/ Contains(b, a)

\* C18: the day map lists the distinct stored lines in the order of their
\* first appearance, and the resolver returns the day of the first entry
\* in that order whose text contains the lowercased name or is contained
\* in it, whatever words other entries share with the name.
C18_FirstSubstringMatch ==
    r_pc = "done" =>
        /\ [i \in DOMAIN r_map |-> r_map[i].text] = FirstAppearance(StoredKeys(r_text))
        /\ \A i \in DOMAIN r_map :
              (/\ SubstringRelated(r_map[i].text, Lower(r_name))
               /\ \A j \in 1..(i - 1) : ~SubstringRelated(r_map[j].text, Lower(r_name)))
              => r_day = r_map[i].day

C18_Witness ==
    /\ r_pc = "done"
    /\ r_name = qRockClimb
    /\ r_text = <<nClimbRock, nDay2, nRockClimbTrek>>
    /\ r_numDays = 2
    /\ r_map = <<[text |-> nClimbRock, day |-> 1],
                 [text |-> Lower(nRockClimbTrek), day |-> 2]>>
    /\ r_day = 2

\* the number of distinct whitespace-separated words two texts share
SharedWords(a, b) ==
    Cardinality({w \in Range(Words(a)) : w \in Range(Words(b))})

\* entry i shares at least 2 words with the name, no entry shares more and
\* no earlier entry as many
IsBestOverlap(day_map, name_lower, i) ==
    /\ SharedWords(name_lower, day_map[i].text) >= 2
    /\ \A j \in DOMAIN day_map :
          /\ SharedWords(name_lower, day_map[j].text)
                <= SharedWords(name_lower, day_map[i].text)
          /\ j < i => SharedWords(name_lower, day_map[j].text)
                         < SharedWords(name_lower, day_map[i].text)

\* C19: when no entry is in substring relation with the name, the resolver
\* returns the day of the entry sharing the most words with the name,
\* provided it shares 2 or more (the earliest such entry on a tie), and
\* day 1 when no entry shares 2 words or the map is empty.
C19_BestWordOverlap ==
    (/\ r_pc = "done"
     /\ \A i \in DOMAIN r_map : ~SubstringRelated(r_map[i].text, Lower(r_name)))
    => IF \E i \in DOMAIN r_map : SharedWords(Lower(r_name), r_map[i].text) >= 2
       THEN \E i \in DOMAIN r_map :
               IsBestOverlap(r_map, Lower(r_name), i) /\ r_day = r_map[i].day
       ELSE r_day = 1

C19_Witness ==
    /\ r_pc = "done"
    /\ r_name = qXRockClimb
    /\ r_text = <<nClimbRock, nDay2, nRockXClimb>>
    /\ r_numDays = 2
    /\ r_map = <<[text |-> nClimbRock, day |-> 1], [text |-> nRockXClimb, day |-> 2]>>
    /\ r_day = 2

\* the day the resolver gives suggestion i against the session's narrative
ResolverDefault(i) ==
    guess_day_for_activity(NameOf(temp_activities[i + 1]),
                           parse_activity_day_defaults(master_itinerary, nights + 1), 1)

\* the user's override of suggestion i when its selectbox shows another day
\* than its default option, the given default otherwise
TargetDay(i, default) ==
    IF widgets[i].value # widgets[i].index + 1 THEN widgets[i].value ELSE default

\* the cards a step has appended to day d
Appended(d) ==
    SubSeq(day_activities'[d], Len(Get(day_activities, d, <<>>)) + 1,
           Len(day_activities'[d]))

\* the step leaves the board as an Apply All with the given target days
\* does: every column keeps its cards and gets new ones at its end, each
\* new card is a suggestion whose target is the column, no suggestion gives
\* two cards, no name is added to a day that holds it, and afterwards every
\* suggestion's name is on its target day
AppliesAll(target(_)) ==
    LET Idx == 0..(Len(temp_activities) - 1)
        card(i) == [id |-> ActId(i, target(i)), name |-> NameOf(temp_activities[i + 1]),
                    type |-> TypeOf(temp_activities[i + 1])]
    IN /\ \A d \in DOMAIN day_activities : d \in DOMAIN day_activities'
       /\ \A d \in DOMAIN day_activities' :
             /\ SubSeq(day_activities'[d], 1, Len(Get(day_activities, d, <<>>)))
                   = Get(day_activities, d, <<>>)
             /\ NamesDistinct(day_activities'[d])
             /\ \A k \in DOMAIN Appended(d) :
                   \E i \in Idx : target(i) = d /\ Appended(d)[k] = card(i)
       /\ \A i \in Idx :
             /\ NameInDay(day_activities', target(i), NameOf(temp_activities[i + 1]))
             /\ Cardinality({<<d, k>> \in (DOMAIN day_activities') \X (1..MaxCards) :
                                /\ k \in DOMAIN Appended(d)
                                /\ Appended(d)[k].id = ActId(i, d)}) <= 1

\* C20: Apply All processes every suggestion once, with the user's
\* override as its target day when one is set and the resolver's day for
\* it otherwise, appending it to the end of that day unless the day holds
\* its name; a second Apply All right after the first changes nothing.
C20_ApplyAllResolverDefault ==
    [][ApplyAll =>
          /\ AppliesAll(LAMBDA i : TargetDay(i, ResolverDefault(i)))
          /\ lastOp = "apply_all" => day_activities' = day_activities]_vars

\* the rows of one day, in the order they were written
RowsOf(rows, d) == SelectSeq(rows, LAMBDA r : r.day_number = d)

\* no two rows share a sort_order, so ORDER BY sort_order has one result
Determined(rs) ==
    \A i, j \in DOMAIN rs : rs[i].sort_order = rs[j].sort_order => i = j

\* the place of row j when rs is read back ordered by sort_order
RankIn(rs, j) ==
    Cardinality({i \in DOMAIN rs : rs[i].sort_order < rs[j].sort_order}) + 1

\* rows holds one tuple per card of board, in the card's column, and reading
\* a day back by sort_order gives the column's cards in their order
SavedAsScheduled(board, rows) ==
    /\ Len(rows) = CardCount(board)
    /\ \A j \in DOMAIN rows : rows[j].day_number \in DOMAIN board
    /\ \A d \in DOMAIN board :
          LET rs == RowsOf(rows, d)
          IN /\ Len(rs) = Len(board[d])
             /\ Determined(rs)
             /\ \A j \in DOMAIN rs :
                   /\ RankIn(rs, j) \in DOMAIN board[d]
                   /\ rs[j].activity_name = board[d][RankIn(rs, j)].name
                   /\ rs[j].activity_type = board[d][RankIn(rs, j)].type
                   /\ rs[j].sort_order = RankIn(rs, j) - 1

\* C21: a Save Trip whose first transaction commits writes exactly one
\* tuple per scheduled activity, with day_number the activity's column and
\* sort_order its position in the column, so that reading the tuples back
\* ordered by (day_number, sort_order) reproduces every column's card order.
C21_OneRowPerCard ==
    [][(\E outcome \in {"saved", "packing_failed"} : SaveTrip(outcome))
          => SavedAsScheduled(day_activities, inserted')]_vars

\* a trip was saved with two activities in one day and one in another
C21_Witness ==
    /\ lastOp = "save"
    /\ \E d, e \in Days : d # e /\ Len(RowsOf(inserted, d)) >= 2
                                 /\ Len(RowsOf(inserted, e)) >= 1

\* the step is a script run that calls render_dnd_itinerary
RendersBoard ==
    lastOp' \notin {"drop", "delete", "payload_dropped"} /\ rendered' # <<>>

\* the step is a Generate Plan whose AI call returns
GeneratesPlan == lastOp' = "generate"

\* C22: a successful Save Trip leaves the board, the suggestion list, the
\* day defaults and the warnings empty and the trip dates cleared; while
\* the suggestion list is empty no run renders the board, and only a
\* Generate Plan fills the list again.
C22_SessionEmptyAfterSave ==
    [][/\ SaveTrip("saved") =>
              /\ day_activities' = EmptyDict
              /\ temp_activities' = <<>>
              /\ activity_day_defaults' = EmptyDict
              /\ conflict_warnings' = EmptyDict
              /\ trip_start' = None /\ trip_end' = None
       /\ temp_activities = <<>> /\ RendersBoard => GeneratesPlan
       /\ temp_activities = <<>> /\ temp_activities' # <<>> => GeneratesPlan]_vars

\* a trip with scheduled activities has just been saved; the page of that
\* run still shows the board
C22_Witness ==
    /\ lastOp = "save"
    /\ inserted # <<>>
    /\ rendered # <<>>
    /\ temp_activities = <<>>

\* the lines of ls that contain the separator, in their order
RECURSIVE LinesWithSeparator(_)
LinesWithSeparator(ls) ==
    IF ls = <<>> THEN <<>>
    ELSE (IF "|" \in Range(Head(ls)) THEN <<Head(ls)>> ELSE <<>>)
            \o LinesWithSeparator(Tail(ls))

\* C23: the suggestions are exactly the lines of section one that contain
\* '|', in their order, the other lines being dropped by a run that goes
\* on normally; a response without the itinerary section gives an empty
\* narrative and day 1 as the default of every suggestion.
C23_SeparatorLinesOnly ==
    lastOp = "generate" =>
       /\ temp_activities = LinesWithSeparator(g_resp.section1)
       /\ ~g_resp.marker =>
             /\ master_itinerary = EmptyText
             /\ DOMAIN activity_day_defaults = 0..(Len(temp_activities) - 1)
             /\ \A i \in DOMAIN activity_day_defaults : activity_day_defaults[i] = 1

\* a response without the itinerary section whose first line has no
\* separator has been parsed for a trip of more than one day
C23_Witness ==
    /\ lastOp = "generate"
    /\ nights >= 1
    /\ g_resp.section1 = <<sIntro, sDawn, sDusk>>
    /\ ~g_resp.marker
    /\ temp_activities = <<sDawn, sDusk>>
    /\ master_itinerary = EmptyText
    /\ activity_day_defaults = [i \in 0..1 |-> 1]

\* k occurs in text: some stretch of text spells k
OccursIn(k, text) ==
    \E off \in 0..Len(text) :
        \A j \in 1..Len(k) : off + j <= Len(text) /\ text[off + j] = k[j]

\* the keyword list of each tag
TagKeywords ==
    [strenuous |-> STRENUOUS_KEYWORDS, night |-> NIGHT_KEYWORDS,
     early |-> EARLY_KEYWORDS, water |-> WATER_KEYWORDS]

\* name + " " + type with every capital letter replaced by its small letter
JoinedLower(name, atype) ==
    LET text == name \o <<" ">> \o atype
    IN [i \in DOMAIN text |->
           IF \E c \in DOMAIN UpperChars : UpperChars[c] = text[i]
           THEN LowerChars[CHOOSE c \in DOMAIN UpperChars : UpperChars[c] = text[i]]
           ELSE text[i]]

\* C24: classify gives each of the tags strenuous, night, early and water
\* exactly when a keyword of the tag's list occurs in the lowercased text
\* name + ' ' + type, each tag on its own, and gives no other tag.
C24_TagIffKeyword ==
    c_pc = "done" =>
       /\ c_tags \subseteq DOMAIN TagKeywords
       /\ \A tag \in DOMAIN TagKeywords :
             tag \in c_tags <=>
                \E k \in TagKeywords[tag] : OccursIn(k, JoinedLower(c_name, c_type))

\* Kayak with type Evening: two tags from the name, a third from a keyword
\* that only the type holds
C24_Witness ==
    /\ c_pc = "done"
    /\ c_name = <<"K","a","y","a","k">>
    /\ c_type = <<"E","v","e","n","i","n","g">>
    /\ c_tags = {"strenuous", "water", "night"}

\* C25: whatever adds, Apply All runs, drags and deletes have happened, no
\* two activities of the session's board share an id, and no two cards of
\* the board in the browser do.
C25_IdsDistinct ==
    /\ \A d, e \in DOMAIN day_activities :
          \A j \in DOMAIN day_activities[d], k \in DOMAIN day_activities[e] :
             day_activities[d][j].id = day_activities[e][k].id => d = e /\ j = k
    /\ \A p, q \in CardPositions(dom) :
          dom[p[1]].cards[p[2]].id = dom[q[1]].cards[q[2]].id => p = q

\* suggestion 0 was added to day 1 and to day 2, and the day-1 card has
\* been dragged into the column of day 2, next to the day-2 card
C25_Witness ==
    /\ lastOp = "drop"
    /\ \E k \in DOMAIN dom :
          /\ dom[k].day = 2
          /\ \E j, l \in DOMAIN dom[k].cards :
                /\ dom[k].cards[j].id = ActId(0, 2)
                /\ dom[k].cards[l].id = ActId(0, 1)

\* C28: a Generate Plan for n nights leaves the board with the empty
\* columns 1..n+1 and no warnings; when the AI call fails the day defaults
\* are empty too, while the suggestion list and the narrative are the ones
\* the session held before.
C28_ResetBeforeCall ==
    [][/\ (GeneratesPlan \/ \E n \in 0..MaxNights : GeneratePlanFails(n)) =>
              /\ day_activities' = [i \in 1..(nights' + 1) |-> <<>>]
              /\ conflict_warnings' = EmptyDict
       /\ (\E n \in 0..MaxNights : GeneratePlanFails(n)) =>
              /\ activity_day_defaults' = EmptyDict
              /\ temp_activities' = temp_activities
              /\ master_itinerary' = master_itinerary]_vars

\* the AI call of a two-day plan has failed in a session that still holds
\* the suggestions, narrative and selectboxes of the plan before
C28_Witness ==
    /\ lastOp = "generate_failed"
    /\ nights = 1
    /\ temp_activities # <<>>
    /\ master_itinerary # EmptyText
    /\ widgets # EmptyDict
    /\ day_activities = [i \in 1..2 |-> <<>>]

\* card j of acts is the only card of acts tagged night or early, and it
\* is tagged both
OnlyNightAndEarly(acts, j) ==
    /\ {"night", "early"} \subseteq Classified(acts[j].name, acts[j].type)
    /\ \A k \in DOMAIN acts \ {j} :
          Classified(acts[k].name, acts[k].type) \cap {"night", "early"} = {}

\* C30: a day whose only night- or early-tagged activity carries both tags
\* gets one sleep-conflict warning, which names that activity as the early
\* start and as the late night.
C30_SelfSleepConflict ==
    lastOp = "analyze" =>
        \A d \in DOMAIN day_activities :
            \A j \in DOMAIN day_activities[d] :
                OnlyNightAndEarly(day_activities[d], j) =>
                    WarningsOfKind(d, {"sleep_conflict"}) =
                        <<[kind |-> "sleep_conflict",
                           names |-> <<day_activities[d][j].name,
                                       day_activities[d][j].name>>]>>

\* the analyzed day 1 holds a hike and the activity Night of type Dawn
C30_Witness ==
    /\ lastOp = "analyze"
    /\ 1 \in DOMAIN day_activities
    /\ Names(day_activities[1]) = <<NameOf(sHike), NameOf(sNight)>>
    /\ conflict_warnings[1] =
          <<[kind |-> "sleep_conflict", names |-> <<NameOf(sNight), NameOf(sNight)>>]>>

\* C29: in the saved-trip editor the activities of one day always have
\* pairwise distinct sort_order values.
C29_DistinctSortOrders ==
    \A d \in 1..edit_days : Determined(RowsOf(trip_activities, d))

\* C26: for an account that has a stored password hash, a session becomes
\* logged in as the account, or changes the account's hash, only if it has
\* passed check_password for the account, whatever the other sessions do.
C26_NoEntryWithoutCheck ==
    [][\A s \in DOMAIN sessions, a \in DOMAIN users :
          users[a].password_hash # <<>> =>
             /\ (~sessions[s].logged_in /\ sessions'[s].logged_in
                    /\ sessions'[s].uid = a)
                   => a \in sessions'[s].checked
             /\ (sessions'[s] # sessions[s]
                    /\ users'[a].password_hash # users[a].password_hash)
                   => a \in sessions'[s].checked]_vars

\* MMDDYYYY of a date <<year, month, day>>, digit by digit
DobString(dob) ==
    <<DigitChars[(dob[2] \div 10) + 1], DigitChars[(dob[2] % 10) + 1],
      DigitChars[(dob[3] \div 10) + 1], DigitChars[(dob[3] % 10) + 1],
      DigitChars[(dob[1] \div 1000) + 1], DigitChars[((dob[1] \div 100) % 10) + 1],
      DigitChars[((dob[1] \div 10) % 10) + 1], DigitChars[(dob[1] % 10) + 1]>>

\* C27: a login whose password is the account's date-of-birth reset
\* password and passes the check leaves the session logged out on the
\* force_change screen; from that screen logged_in becomes true only in a
\* step that stores a password which validates and is not the
\* date-of-birth string; going back to the login screen leaves logged_in
\* false.
C27_DobLoginForcesChange ==
    [][\A s \in DOMAIN sessions :
          /\ \A u \in DOMAIN users, pw \in PasswordInputs :
                (/\ Login(s, u, pw)
                 /\ users[u].date_of_birth # <<>>
                 /\ pw = DobString(users[u].date_of_birth)
                 /\ check_password(pw, users[u].password_hash))
                   => /\ ~sessions'[s].logged_in
                      /\ sessions'[s].auth_screen = "force_change"
          /\ (sessions[s].auth_screen = "force_change" /\ sessions'[s].logged_in)
                => LET a == sessions[s].pending_uid
                   IN \E pw \in PasswordInputs :
                         /\ users'[a].password_hash = hash_password(pw)
                         /\ validate_password(pw) = "none"
                         /\ pw # DobString(users[a].date_of_birth)
                         /\ sessions'[s].uid = a
          /\ (sessions[s].auth_screen = "force_change" /\ SwitchScreen(s, "login"))
                => ~sessions'[s].logged_in]_vars

\* a session that logged in with the reset password 01021990 has stored
\* trail2024 on the force_change screen and is logged in
C27_Witness ==
    /\ lastOp = "force_change_done"
    /\ users[1].password_hash = hash_password(<<"t","r","a","i","l","2","0","2","4">>)
    /\ users[1].date_of_birth = <<1990, 1, 2>>
    /\ \E s \in DOMAIN sessions :
          sessions[s].logged_in /\ sessions[s].uid = 1 /\ 1 \in sessions[s].checked

====
